---- MODULE Spec2Model ----
(***************************************************************************)
(* Schema normalization, validation and merging of DataGenAgent            *)
(* (backend/app/services/data_validator.py, schema_merger_service.py).     *)
(*                                                                         *)
(* A JSON value that is used as a schema is a record with one field per    *)
(* key the code reads.  An absent key is an empty tuple (or the kind       *)
(* "absent"), so that "key in dict" and dict.get(key) keep their meaning.  *)
(***************************************************************************)
EXTENDS Integers, Sequences, FiniteSets, TLC

VARIABLES
    pc,              \* position of the caller: which call has returned
    schema,          \* the schema-shaped object handed to _normalize_schema
    normalized,      \* _normalize_schema(schema)
    renormalized,    \* _normalize_schema(normalized): the "safety check" call
    primary,         \* merge_schemas: template_schema (the priority side)
    secondary,       \* merge_schemas: document_schema
    merged,          \* what merge_schemas returned, or that it raised
    data,            \* validate_against_schema: the data to validate
    JSONSCHEMA_AVAILABLE,   \* whether `import jsonschema` succeeded (7-12)
    result,          \* the dict validate_against_schema returned
    documents,       \* process_multiple_documents: what processing each
                     \* document of document_ids gives (its outcome)
    document_results,   \* the tasks handed to asyncio.gather, by index
    completed,       \* the indices of the finished tasks, in finishing order
    workflow_result, \* what process_multiple_documents returned or raised
    calls,           \* generate_data: the calls made so far on a schema that
                     \* comes from a document, in order
    json_value,      \* json_parser_service: the parsed JSON example
    inferred_type,   \* infer_field_type(json_value)
    field_definitions,  \* the field definitions handed to _build_schema
    built_schema     \* what _build_schema returned, or that it raised

normVars == <<schema, normalized, renormalized>>
mergeVars == <<primary, secondary, merged>>
validateVars == <<data, JSONSCHEMA_AVAILABLE, result>>
docVars == <<documents, document_results, completed, workflow_result>>
flowVars == <<calls>>
parserVars == <<json_value, inferred_type, field_definitions, built_schema>>
vars == <<pc, normVars, mergeVars, validateVars, docVars, flowVars, parserVars>>

(***************************************************************************)
(* Bounds of the explored inputs.                                          *)
(***************************************************************************)
MaxDepth == 3        \* longest chain of single-property wrappers
MaxComp == 1         \* longest allOf / anyOf / oneOf list
MaxItems == 2        \* longest list handed to validate_against_schema
MaxDocs == 3         \* longest document_ids list

(***************************************************************************)
(* The value of a `required` key: absent, a boolean, a list of names       *)
(* (kept as the set of its entries), or any other JSON value.              *)
(***************************************************************************)
ReqAbsent == [kind |-> "absent", flag |-> FALSE, names |-> {}]
ReqBool(b) == [kind |-> "bool", flag |-> b, names |-> {}]
ReqList(S) == [kind |-> "list", flag |-> FALSE, names |-> S]
ReqOther == [kind |-> "other", flag |-> FALSE, names |-> {}]

(***************************************************************************)
(* Schema-shaped values.  isDict = FALSE is a JSON value that is no        *)
(* object (a property whose schema is `true`, a string, ...).              *)
(***************************************************************************)
NoProps == [n \in {} |-> 0]

EmptyDict ==
    [isDict |-> TRUE, type |-> "", desc |-> <<>>,
     propsKind |-> "absent", props |-> NoProps,
     required |-> ReqAbsent, items |-> <<>>, comp |-> NoProps,
     cons |-> NoProps, pattern |-> <<>>, enum |-> <<>>, constraints |-> <<>>]

NonDict == [EmptyDict EXCEPT !.isDict = FALSE]

None == NonDict

\* what a call gives back: a value, or an exception that leaves the call
Returned(v) == [raised |-> FALSE, value |-> v]
Raised == [raised |-> TRUE, value |-> None]

(***************************************************************************)
(* JSON data as Python sees it.  A float is num, or num + 1/2 when `half`. *)
(* "text" is a str handed in as data: the text of the JSON value in        *)
(* `elems`, or (elems empty) text that json.loads rejects.                 *)
(***************************************************************************)
NullValue ==
    [t |-> "null", num |-> 0, half |-> FALSE, str |-> "", elems |-> <<>>,
     fields |-> NoProps]
BoolValue(b) == [NullValue EXCEPT !.t = "bool", !.num = IF b THEN 1 ELSE 0]
IntValue(n) == [NullValue EXCEPT !.t = "int", !.num = n]
FloatValue(n, h) == [NullValue EXCEPT !.t = "float", !.num = n, !.half = h]
StrValue(s) == [NullValue EXCEPT !.t = "str", !.str = s]
ListValue(q) == [NullValue EXCEPT !.t = "list", !.elems = q]
DictValue(f) == [NullValue EXCEPT !.t = "dict", !.fields = f]
JsonText(v) == [NullValue EXCEPT !.t = "text", !.elems = <<v>>]
BadJsonText == [NullValue EXCEPT !.t = "text"]

\* the result dict of 164-169 / 228-233 / 301-306
NewResult == [valid |-> TRUE, errors |-> <<>>, warnings |-> <<>>, details |-> <<>>]

\* Python truth of an Optional[dict]: None and {} are both false
Truthy(s) == s.isDict /\ s # EmptyDict

Typed(t) == [EmptyDict EXCEPT !.type = t]

WithProps(s, p) == [s EXCEPT !.propsKind = "dict", !.props = p]

WithRequired(s, r) == [s EXCEPT !.required = r]

One(name, s) == [n \in {name} |-> s]

Two(n1, s1, n2, s2) == [n \in {n1, n2} |-> IF n = n1 THEN s1 ELSE s2]

HasProperties(s) == s.propsKind # "absent"

(***************************************************************************)
(* str.lower() on the property names the inputs use.                       *)
(***************************************************************************)
Lower(name) ==
    CASE name = "Result" -> "result"
      [] name = "DATA" -> "data"
      [] OTHER -> name

wrapper_names == {"response", "data", "result", "body", "content", "payload"}

(***************************************************************************)
(* data_validator.py 50-62: the test that decides the auto-unwrap.         *)
(***************************************************************************)
IsWrapperNoLower(s) ==
    /\ s.propsKind = "dict"
    /\ Cardinality(DOMAIN s.props) = 1
    /\ \E n \in DOMAIN s.props :
          /\ n \in wrapper_names
          /\ s.props[n].isDict
          /\ s.props[n].type = "object"
          /\ HasProperties(s.props[n])

IsWrapper(s) ==
    /\ s.propsKind = "dict"
    /\ Cardinality(DOMAIN s.props) = 1
    /\ \E n \in DOMAIN s.props :
          /\ Lower(n) \in wrapper_names
          /\ s.props[n].isDict
          /\ s.props[n].type = "object"
          /\ HasProperties(s.props[n])

WrappedSchema(s) == s.props[CHOOSE n \in DOMAIN s.props : TRUE]

(***************************************************************************)
(* data_validator.py 82-89: what a normalized property's own `required`    *)
(* contributes to the parent's required_fields_from_props.                 *)
(***************************************************************************)
PromotedFromProp(prop_name, normalized_prop) ==
    LET prop_required == normalized_prop.required IN
    IF ~normalized_prop.isDict \/ prop_required.kind = "absent" THEN {}
    ELSE IF prop_required.kind = "bool" /\ prop_required.flag THEN {prop_name}
    ELSE IF prop_required.kind = "list" /\ prop_required.names # {}
         THEN {prop_name \o "." \o r : r \in prop_required.names}
    ELSE {}

(***************************************************************************)
(* data_validator.py 97-123: the `required` value of a level, from its     *)
(* own value, its (normalized) properties and the promoted names.          *)
(***************************************************************************)
RequiredKeepsBoolean(required_value, propsKind, prop_names, promoted) ==
    IF required_value.kind = "bool" THEN required_value
    ELSE IF required_value.kind = "list" THEN ReqList(required_value.names \cup promoted)
    ELSE ReqList(promoted)

NormalizeRequired(required_value, propsKind, prop_names, promoted) ==
    IF required_value.kind = "bool" THEN
        IF required_value.flag THEN
            IF propsKind = "dict" /\ prop_names # {}
            THEN ReqList(prop_names \cup promoted)
            ELSE ReqList(promoted)
        ELSE ReqList(promoted)
    ELSE IF required_value.kind = "other" THEN ReqList(promoted)
    ELSE IF required_value.kind = "list" THEN
        IF promoted # {} THEN ReqList(required_value.names \cup promoted)
        ELSE required_value
    ELSE IF promoted # {} THEN ReqList(promoted)
    ELSE required_value

(***************************************************************************)
(* data_validator.py 28-141: DataValidator._normalize_schema.              *)
(***************************************************************************)
RECURSIVE _normalize_schema(_)

\* 126-129 and 132-139: `items` and the members of allOf / anyOf / oneOf
NormalizeNested(s) ==
    [s EXCEPT
       !.items = [i \in DOMAIN s.items |->
                    IF s.items[i].isDict THEN _normalize_schema(s.items[i])
                    ELSE s.items[i]],
       !.comp = [k \in DOMAIN s.comp |->
                    [i \in DOMAIN s.comp[k] |->
                       IF s.comp[k][i].isDict THEN _normalize_schema(s.comp[k][i])
                       ELSE s.comp[k][i]]]]

\* 70-123: properties first, then `required` of this level
NormalizeLevel(s) ==
    LET isPropsDict == s.propsKind = "dict"
        names == IF isPropsDict THEN DOMAIN s.props ELSE {}
        normalized_prop == [n \in names |->
            IF s.props[n].isDict THEN _normalize_schema(s.props[n]) ELSE s.props[n]]
        required_fields_from_props ==
            UNION {PromotedFromProp(n, normalized_prop[n]) : n \in names}
        normalized_properties == [n \in names |->
            IF normalized_prop[n].isDict
            THEN [normalized_prop[n] EXCEPT !.required = ReqAbsent]
            ELSE normalized_prop[n]]
    IN  [s EXCEPT
           !.props = IF isPropsDict THEN normalized_properties ELSE s.props,
           !.required = NormalizeRequired(s.required, s.propsKind, names,
                                          required_fields_from_props)]

_normalize_schema(s) ==
    IF ~s.isDict THEN s
    ELSE IF IsWrapper(s) THEN _normalize_schema(WrappedSchema(s))
    ELSE NormalizeNested(NormalizeLevel(s))

(***************************************************************************)
(* Inputs of the normalizer: every mix of `required` values on a level and *)
(* on its properties, nested objects, `items`, composition keywords, and   *)
(* chains of single-property wrappers up to MaxDepth.                      *)
(***************************************************************************)
RequiredValues ==
    {ReqAbsent, ReqBool(TRUE), ReqBool(FALSE), ReqOther, ReqList({}), ReqList({"a"})}

LeafSchemas ==
    {WithRequired(Typed(t), r) :
        t \in {"", "string"},
        r \in {ReqAbsent, ReqBool(TRUE), ReqBool(FALSE), ReqOther, ReqList({})}}
    \cup {NonDict}

NestedObjects ==
    {WithRequired(WithProps(Typed(t), One("x", leaf)), r) :
        t \in {"", "object"},
        r \in {ReqAbsent, ReqBool(TRUE), ReqList({"x"})},
        leaf \in {Typed("string"), WithRequired(Typed("string"), ReqBool(TRUE))}}

ChildSchemas == LeafSchemas \cup NestedObjects

SiblingSchemas == {Typed("integer"), WithRequired(Typed("integer"), ReqBool(TRUE))}

RECURSIVE SeqsUpTo(_, _)
SeqsUpTo(S, n) ==
    IF n = 0 THEN {<<>>}
    ELSE SeqsUpTo(S, n - 1) \cup
         {Append(q, e) : q \in {r \in SeqsUpTo(S, n - 1) : Len(r) = n - 1}, e \in S}

LevelShapes ==
    {EmptyDict, [EmptyDict EXCEPT !.propsKind = "other"], WithProps(EmptyDict, NoProps)}
    \cup {WithProps(EmptyDict, One(n, c)) : n \in {"a", "data"}, c \in ChildSchemas}
    \cup {WithProps(EmptyDict, Two("a", c, "b", l)) :
             c \in ChildSchemas, l \in SiblingSchemas}
    \cup {[EmptyDict EXCEPT !.items = <<c>>] : c \in ChildSchemas}
    \cup {[EmptyDict EXCEPT !.comp = One(k, q)] :
             k \in {"allOf", "anyOf", "oneOf"}, q \in SeqsUpTo(ChildSchemas, MaxComp)}

LevelSchemas ==
    {[shape EXCEPT !.type = t, !.required = r] :
        shape \in LevelShapes, t \in {"", "object"}, r \in RequiredValues}

IdObject == WithProps(Typed("object"), One("id", Typed("integer")))

WrapperBases ==
    {Typed("integer"), IdObject, WithRequired(IdObject, ReqList({"id"})),
     WithProps(Typed("object"),
               Two("id", Typed("integer"),
                   "a", WithRequired(Typed("string"), ReqBool(TRUE))))}

Wrap(C) ==
    {WithProps(Typed(t), One(n, c)) :
        t \in {"", "object"}, n \in {"data", "Result", "response", "a"}, c \in C}

RECURSIVE WrapperChains(_)
WrapperChains(d) ==
    IF d = 0 THEN WrapperBases
    ELSE LET inner == WrapperChains(d - 1) IN inner \cup Wrap(inner)

NormalizerInputs == LevelSchemas \cup WrapperChains(MaxDepth)

(***************************************************************************)
(* The caller of the normalizer: validate_against_schema normalizes the    *)
(* schema (176) and _validate_item normalizes the result again (242).      *)
(***************************************************************************)
ValidateIdle ==
    /\ data = NullValue
    /\ JSONSCHEMA_AVAILABLE = FALSE
    /\ result = NewResult

DocumentsIdle ==
    /\ documents = <<>>
    /\ document_results = <<>>
    /\ completed = <<>>
    /\ workflow_result = [raised |-> FALSE, value |-> NoProps]

FlowIdle == calls = <<>>

ParserIdle ==
    /\ json_value = NullValue
    /\ inferred_type = ""
    /\ field_definitions = <<>>
    /\ built_schema = Returned(EmptyDict)

NormalizeIdle ==
    /\ schema = EmptyDict
    /\ normalized = EmptyDict
    /\ renormalized = EmptyDict

MergeIdle ==
    /\ primary = None
    /\ secondary = None
    /\ merged = Returned(EmptyDict)

InitNormalize ==
    /\ pc = "start"
    /\ schema \in NormalizerInputs
    /\ normalized = EmptyDict
    /\ renormalized = EmptyDict
    /\ MergeIdle
    /\ ValidateIdle
    /\ DocumentsIdle
    /\ FlowIdle
    /\ ParserIdle

Normalize ==
    /\ pc = "start"
    /\ normalized' = _normalize_schema(schema)
    /\ pc' = "normalized"
    /\ UNCHANGED <<schema, renormalized, mergeVars, validateVars, docVars, flowVars, parserVars>>

NormalizeAgain ==
    /\ pc = "normalized"
    /\ renormalized' = _normalize_schema(normalized)
    /\ pc' = "renormalized"
    /\ UNCHANGED <<schema, normalized, mergeVars, validateVars, docVars, flowVars, parserVars>>

NextNormalize == Normalize \/ NormalizeAgain

SpecNormalize == InitNormalize /\ [][NextNormalize]_vars

(***************************************************************************)
(* C1: normalizing twice gives the same schema as normalizing once         *)
(* (`required` arrays compared as sets of names).                          *)
(***************************************************************************)
C1_NormalizeIdempotent ==
    pc = "renormalized" => renormalized = normalized

(***************************************************************************)
(* C2: a property that carries `required: true` has its name in the        *)
(* normalized `required` array of its parent and loses the key (stated     *)
(* for the levels that are kept, i.e. are not unwrapped).                  *)
(***************************************************************************)
C2_RequiredTruePromoted ==
    (pc # "start" /\ schema.propsKind = "dict" /\ ~IsWrapper(schema)) =>
        \A n \in DOMAIN schema.props :
            (schema.props[n].isDict /\ schema.props[n].required = ReqBool(TRUE)) =>
                /\ normalized.required.kind = "list"
                /\ n \in normalized.required.names
                /\ normalized.props[n].required = ReqAbsent

(***************************************************************************)
(* C3: in a normalized schema every `required`, at every level reached     *)
(* through properties, items and allOf/anyOf/oneOf, is an array of names   *)
(* and no property schema carries a `required` key.                        *)
(***************************************************************************)
RECURSIVE WellFormedSchema(_)
WellFormedSchema(s) ==
    s.isDict =>
        /\ s.required.kind \in {"absent", "list"}
        /\ s.propsKind = "dict" =>
              \A n \in DOMAIN s.props :
                  /\ s.props[n].isDict => s.props[n].required.kind = "absent"
                  /\ WellFormedSchema(s.props[n])
        /\ \A i \in DOMAIN s.items : WellFormedSchema(s.items[i])
        /\ \A k \in DOMAIN s.comp :
              \A i \in DOMAIN s.comp[k] : WellFormedSchema(s.comp[k][i])

C3_RequiredAlwaysArray ==
    pc # "start" => WellFormedSchema(normalized)

C3_Witness ==
    /\ pc = "normalized"
    /\ schema.required.kind = "bool"
    /\ schema.propsKind = "dict"
    /\ \E n \in DOMAIN schema.props :
          /\ schema.props[n].isDict
          /\ schema.props[n].required.kind = "bool"
          /\ normalized.props[n].required.kind = "absent"
    /\ normalized.required.kind = "list"

(***************************************************************************)
(* C4: a schema is replaced by its normalized inner schema exactly when it *)
(* has one property, named (ignoring case) response, data, result, body,   *)
(* content or payload, whose schema is an object type with `properties`;   *)
(* otherwise the property names of the level are unchanged.                *)
(***************************************************************************)
C4_Example == WithProps(EmptyDict, One("response", IdObject))

C4_IsEnvelope(s) ==
    /\ s.propsKind = "dict"
    /\ \E n \in DOMAIN s.props :
          /\ DOMAIN s.props = {n}
          /\ Lower(n) \in {"response", "data", "result", "body", "content", "payload"}
          /\ s.props[n].isDict
          /\ s.props[n].type = "object"
          /\ s.props[n].propsKind # "absent"

C4_UnwrapExactlyEnvelopes ==
    pc # "start" =>
        /\ C4_IsEnvelope(schema) =>
              \E n \in DOMAIN schema.props :
                  normalized = _normalize_schema(schema.props[n])
        /\ (~C4_IsEnvelope(schema) /\ schema.propsKind = "dict") =>
              /\ normalized.propsKind = "dict"
              /\ DOMAIN normalized.props = DOMAIN schema.props
        /\ schema = C4_Example => normalized.props = One("id", Typed("integer"))

C4_Witness ==
    /\ pc = "normalized"
    /\ schema = C4_Example
    /\ normalized = IdObject

(***************************************************************************)
(* schema_merger_service.py: SchemaMergerService.                          *)
(*                                                                         *)
(* A constraint dictionary (the value of a `constraints` key) holds the    *)
(* numeric bounds by key, and `pattern` and `enum` when present.           *)
(***************************************************************************)
EmptyConstraints == [cons |-> NoProps, pattern |-> <<>>, enum |-> <<>>]

\* field.get("constraints", {})
GetConstraints(field) ==
    IF field.constraints = <<>> THEN EmptyConstraints ELSE field.constraints[1]

\* schema.get("properties", {})
GetProperties(s) == IF s.propsKind = "dict" THEN s.props ELSE NoProps

\* field.get("items", {})
GetItems(field) == IF field.items = <<>> THEN EmptyDict ELSE field.items[1]

\* a description that Python takes as true: present and not ""
HasDescription(field) == field.desc # <<>> /\ field.desc # <<"">>

Max(a, b) == IF a >= b THEN a ELSE b
Min(a, b) == IF a <= b THEN a ELSE b

LowerBoundKeys == {"minLength", "minimum", "minItems"}
UpperBoundKeys == {"maxLength", "maximum", "maxItems"}

\* 161-214
_merge_constraints(primary_constraints, secondary_constraints) ==
    LET p == primary_constraints.cons
        s == secondary_constraints.cons
    IN  [cons |-> [k \in DOMAIN p \cup DOMAIN s |->
                     IF k \in DOMAIN p /\ k \in DOMAIN s
                     THEN IF k \in LowerBoundKeys THEN Max(p[k], s[k]) ELSE Min(p[k], s[k])
                     ELSE IF k \in DOMAIN s THEN s[k] ELSE p[k]],
         pattern |-> IF primary_constraints.pattern = <<>>
                     THEN secondary_constraints.pattern
                     ELSE primary_constraints.pattern,
         enum |-> primary_constraints.enum]

\* 79-82: set(template.get("required", [])) | set(document.get("required", []))
RequiredOfTemplateOnly(template_required, document_required) ==
    ReqList(template_required.names)

MergeRequired(template_required, document_required) ==
    ReqList(template_required.names \cup document_required.names)

\* set(x) raises TypeError on a boolean (or a number)
NotIterable(required_value) == required_value.kind \in {"bool", "other"}

\* {"properties": props, "required": field.get("required", [])} (130-131, 145-146)
SubSchema(props, required_value) ==
    [EmptyDict EXCEPT
       !.propsKind = "dict", !.props = props,
       !.required = IF required_value.kind = "absent" THEN ReqList({})
                    ELSE required_value]

RECURSIVE merge_schemas(_, _)
RECURSIVE _merge_field(_, _)

\* 14-84
merge_schemas(template_schema, document_schema) ==
    IF Truthy(template_schema) /\ ~Truthy(document_schema)
    THEN Returned(template_schema)
    ELSE IF Truthy(document_schema) /\ ~Truthy(template_schema)
    THEN Returned(document_schema)
    ELSE IF ~Truthy(template_schema) /\ ~Truthy(document_schema)
    THEN Returned([EmptyDict EXCEPT !.type = "object", !.propsKind = "dict",
                                    !.required = ReqList({})])
    ELSE
        LET template_props == GetProperties(template_schema)
            document_props == GetProperties(document_schema)
            all_field_names == DOMAIN template_props \cup DOMAIN document_props
            Get(props, n) == IF n \in DOMAIN props THEN props[n] ELSE None
            merged_field == [field_name \in all_field_names |->
                LET template_field == Get(template_props, field_name)
                    document_field == Get(document_props, field_name)
                IN  IF Truthy(template_field) /\ Truthy(document_field)
                    THEN _merge_field(template_field, document_field)
                    ELSE IF Truthy(template_field) THEN Returned(template_field)
                    ELSE IF document_field = None THEN Raised   \* None.copy()
                    ELSE Returned(document_field)]
        IN  IF \E n \in all_field_names : merged_field[n].raised THEN Raised
            ELSE IF NotIterable(template_schema.required)
                    \/ NotIterable(document_schema.required) THEN Raised
            ELSE Returned(
                   [EmptyDict EXCEPT
                      !.type = "object",
                      !.propsKind = "dict",
                      !.props = [n \in all_field_names |-> merged_field[n].value],
                      !.required = MergeRequired(template_schema.required,
                                                 document_schema.required)])

\* 87-158, with priority = "template" (the only call, line 64)
_merge_field(template_field, document_field) ==
    LET merged0 ==
            [template_field EXCEPT
               !.constraints = <<_merge_constraints(GetConstraints(template_field),
                                                    GetConstraints(document_field))>>,
               !.desc = IF ~HasDescription(template_field) /\ HasDescription(document_field)
                        THEN document_field.desc
                        ELSE template_field.desc]
        template_props == GetProperties(template_field)
        document_props == GetProperties(document_field)
        template_items == GetItems(template_field)
        document_items == GetItems(document_field)
    IN  IF merged0.type = "object" /\ (template_props # NoProps \/ document_props # NoProps)
        THEN LET nested_schema ==
                     merge_schemas(SubSchema(template_props, template_field.required),
                                   SubSchema(document_props, document_field.required))
             IN  IF nested_schema.raised THEN Raised
                 ELSE Returned(
                        [merged0 EXCEPT
                           !.propsKind = "dict",
                           !.props = nested_schema.value.props,
                           !.required = IF nested_schema.value.required.names # {}
                                        THEN nested_schema.value.required
                                        ELSE merged0.required])
        ELSE IF merged0.type = "array" /\ (Truthy(template_items) \/ Truthy(document_items))
        THEN IF template_items.type = "object" /\ document_items.type = "object"
             THEN LET nested_schema ==
                          merge_schemas(
                              SubSchema(GetProperties(template_items), template_items.required),
                              SubSchema(GetProperties(document_items), document_items.required))
                  IN  IF nested_schema.raised THEN Raised
                      ELSE Returned(
                             [merged0 EXCEPT
                                !.items = <<[EmptyDict EXCEPT
                                               !.type = "object",
                                               !.propsKind = "dict",
                                               !.props = nested_schema.value.props,
                                               !.required = nested_schema.value.required]>>])
             ELSE IF Truthy(template_items)
             THEN Returned([merged0 EXCEPT !.items = <<template_items>>])
             ELSE Returned([merged0 EXCEPT !.items = <<document_items>>])
        ELSE Returned(merged0)

(***************************************************************************)
(* Object identity, as far as a caller can observe it.  The callee assigns *)
(* keys of a dict it obtained from the caller's dict `original` and ends   *)
(* with `written`.  copy.deepcopy gives a dict that shares nothing with    *)
(* the caller's, and dict.copy() one whose own keys are its own, so the    *)
(* caller's dict keeps its value; without a copy the caller's dict is the  *)
(* one that was written.                                                   *)
(***************************************************************************)
AssignsInPlace(original, written, works_on_copy) == written

AfterWrites(original, written, works_on_copy) ==
    IF works_on_copy THEN original ELSE written

(***************************************************************************)
(* schema_merger_service.py: the caller's two schemas after merge_schemas. *)
(* The dicts whose keys the code assigns are merged_schema (44-48, a       *)
(* literal), `merged` of _merge_field (105, template_field.copy()) and     *)
(* `merged` of _merge_constraints (176, primary_constraints.copy());       *)
(* document_field is only read (the priority is "template", line 64).      *)
(***************************************************************************)
template_schema_after(template_schema, document_schema) ==
    IF ~(Truthy(template_schema) /\ Truthy(document_schema)) THEN template_schema
    ELSE
        LET document_props == GetProperties(document_schema)
            Both(n) == /\ n \in DOMAIN document_props
                       /\ Truthy(template_schema.props[n])
                       /\ Truthy(document_props[n])
        IN  [template_schema EXCEPT
               !.props = [n \in DOMAIN @ |->
                            IF Both(n) /\ ~_merge_field(@[n], document_props[n]).raised
                            THEN AfterWrites(@[n],
                                             _merge_field(@[n], document_props[n]).value,
                                             TRUE)
                            ELSE @[n]]]

document_schema_after(template_schema, document_schema) == document_schema

(***************************************************************************)
(* Inputs of the merger: schemas over the property names x and y, whose    *)
(* property schemas carry bounds as keys of their own or in a              *)
(* `constraints` dictionary, descriptions, nested objects and arrays.      *)
(***************************************************************************)
Bounded(t, c) == [Typed(t) EXCEPT !.cons = c]

Constrained(t, c) == [Typed(t) EXCEPT !.constraints = <<c>>]

Described(s, d) == [s EXCEPT !.desc = <<d>>]

MergeFields ==
    {EmptyDict,
     Bounded("integer", One("minimum", 5)),
     Bounded("integer", One("minimum", 10)),
     Bounded("integer", Two("minimum", 5, "maximum", 10)),
     Constrained("integer", [EmptyConstraints EXCEPT !.cons = Two("minimum", 5, "maximum", 10)]),
     Constrained("integer", [EmptyConstraints EXCEPT !.cons = Two("minimum", 10, "maximum", 5)]),
     Described(Typed("string"), "d1"),
     Described(Typed("string"), ""),
     Described(Constrained("string", [EmptyConstraints EXCEPT
                                        !.pattern = <<"^a">>,
                                        !.enum = <<[strs |-> {"a", "ab"}, nums |-> {}]>>]), "d2"),
     Constrained("string", [EmptyConstraints EXCEPT
                              !.cons = One("minLength", 5), !.pattern = <<"^b">>]),
     [Typed("string") EXCEPT !.pattern = <<"^a">>,
                             !.enum = <<[strs |-> {"a", "b"}, nums |-> {}]>>],
     Typed("object"),
     WithRequired(WithProps(Typed("object"), One("u", Typed("string"))), ReqList({"u"})),
     WithProps(Typed("object"), One("v", Typed("integer"))),
     WithProps(Typed("object"), One("u", EmptyDict)),
     Typed("array"),
     [Typed("array") EXCEPT !.items = <<Typed("string")>>],
     [Typed("array") EXCEPT !.items =
         <<WithRequired(WithProps(Typed("object"), One("u", Typed("string"))),
                        ReqList({"u"}))>>],
     [Typed("array") EXCEPT !.items =
         <<WithProps(Described(Typed("object"), "d3"), One("v", Typed("integer")))>>]}

MergeProperties ==
    {NoProps, One("y", Described(Typed("string"), "dy"))}
    \cup {One("x", f) : f \in MergeFields}
    \cup {Two("x", f, "y", Described(Typed("string"), "dy")) : f \in MergeFields}

MergeInputs ==
    {None, EmptyDict, Typed("object")}
    \cup {[EmptyDict EXCEPT !.propsKind = "dict", !.props = p, !.required = r] :
             p \in MergeProperties,
             r \in {ReqAbsent, ReqList({}), ReqList({"x"}), ReqList({"y"})}}

InitMerge ==
    /\ pc = "start"
    /\ primary \in MergeInputs
    /\ secondary \in MergeInputs
    /\ merged = Returned(EmptyDict)
    /\ NormalizeIdle
    /\ ValidateIdle
    /\ DocumentsIdle
    /\ FlowIdle
    /\ ParserIdle

Merge ==
    /\ pc = "start"
    /\ merged' = merge_schemas(primary, secondary)
    /\ primary' = template_schema_after(primary, secondary)
    /\ secondary' = document_schema_after(primary, secondary)
    /\ pc' = "merged"
    /\ UNCHANGED <<normVars, validateVars, docVars, flowVars, parserVars>>

NextMerge == Merge

SpecMerge == InitMerge /\ [][NextMerge]_vars

(***************************************************************************)
(* C5: for a property present on both sides, a lower bound (minLength,     *)
(* minimum, minItems) that both property schemas carry is merged to the    *)
(* larger of the two and an upper bound to the smaller; the bounds are     *)
(* keys of the property schema itself.                                     *)
(***************************************************************************)
C5_BoundsTightened ==
    (pc = "merged" /\ Truthy(primary) /\ Truthy(secondary) /\ ~merged.raised) =>
        \A n \in DOMAIN GetProperties(primary) \cap DOMAIN GetProperties(secondary) :
            LET p == primary.props[n].cons
                s == secondary.props[n].cons
                m == merged.value.props[n].cons
            IN  \A k \in DOMAIN p \cap DOMAIN s :
                    /\ k \in DOMAIN m
                    /\ k \in LowerBoundKeys => m[k] = Max(p[k], s[k])
                    /\ k \in UpperBoundKeys => m[k] = Min(p[k], s[k])

(***************************************************************************)
(* C6: merge_schemas returns a schema whose property names are the union   *)
(* of both sides' names; a name of one side only keeps that side's         *)
(* property; a name of both sides has the primary's type, and the          *)
(* primary's description unless that is empty or absent, then the          *)
(* secondary's.                                                            *)
(***************************************************************************)
C6_PropertiesAreUnion ==
    (pc = "merged" /\ Truthy(primary) /\ Truthy(secondary)) =>
        /\ ~merged.raised
        /\ LET P == GetProperties(primary)
               S == GetProperties(secondary)
               M == GetProperties(merged.value)
           IN  /\ DOMAIN M = DOMAIN P \cup DOMAIN S
               /\ \A n \in DOMAIN M :
                     /\ n \notin DOMAIN S => M[n] = P[n]
                     /\ n \notin DOMAIN P => M[n] = S[n]
                     /\ (n \in DOMAIN P /\ n \in DOMAIN S) =>
                           /\ M[n].type = P[n].type
                           /\ HasDescription(P[n]) => M[n].desc = P[n].desc
                           /\ (~HasDescription(P[n]) /\ HasDescription(S[n])) =>
                                 M[n].desc = S[n].desc

(***************************************************************************)
(* C7: for two present (non-empty) schemas the merged `required` array is, *)
(* as a set, the union of both sides' `required` arrays, and the empty     *)
(* array when both are empty or absent.                                    *)
(***************************************************************************)
C7_RequiredIsUnion ==
    (pc = "merged" /\ Truthy(primary) /\ Truthy(secondary) /\ ~merged.raised) =>
        /\ merged.value.required.kind = "list"
        /\ merged.value.required.names =
              primary.required.names \cup secondary.required.names

C7_Witness ==
    /\ pc = "merged"
    /\ ~merged.raised
    /\ primary.required = ReqList({"x"})
    /\ secondary.required = ReqList({"y"})
    /\ "x" \in DOMAIN primary.props
    /\ merged.value.required = ReqList({"x", "y"})

C7_WitnessEmpty ==
    /\ pc = "merged"
    /\ ~merged.raised
    /\ primary.required = ReqAbsent /\ Truthy(primary)
    /\ secondary.required = ReqList({}) /\ Truthy(secondary)
    /\ merged.value.required = ReqList({})

(***************************************************************************)
(* data_validator.py: validation.                                          *)
(*                                                                         *)
(* An entry of result["errors"] is the path the message starts with and    *)
(* the check that failed; messages of 184, 207 and 280 carry no path.      *)
(***************************************************************************)
Error(path, check) == [path |-> path, check |-> check]

RECURSIVE SetToSeq(_)
SetToSeq(S) ==
    IF S = {} THEN <<>>
    ELSE LET x == CHOOSE y \in S : TRUE IN <<x>> \o SetToSeq(S \ {x})

RECURSIVE ConcatAll(_)
ConcatAll(qs) == IF qs = <<>> THEN <<>> ELSE Head(qs) \o ConcatAll(Tail(qs))

If(cond, e) == IF cond THEN <<e>> ELSE <<>>

\* result["errors"].extend(errs); if errs: result["valid"] = False
ExtendKeepsValid(res, errs) == [res EXCEPT !.errors = @ \o errs]

Extend(res, errs) ==
    IF errs = <<>> THEN res
    ELSE [res EXCEPT !.valid = FALSE, !.errors = @ \o errs]

\* 352-378: isinstance against type_map; bool is a subclass of int
_check_type(value, expected_type) ==
    CASE expected_type = "string" -> value.t = "str"
      [] expected_type = "number" -> value.t \in {"int", "bool", "float"}
      [] expected_type = "integer" -> value.t \in {"int", "bool"}
      [] expected_type = "boolean" -> value.t = "bool"
      [] expected_type = "object" -> value.t = "dict"
      [] expected_type = "array" -> value.t = "list"
      [] OTHER -> TRUE

\* value < bound and value > bound for an int bound
LessThan(value, bound) == value.num < bound
GreaterThan(value, bound) == IF value.half THEN value.num >= bound ELSE value.num > bound

Char(s, i) == SubSeq(s, i, i)

IsDigit(c) == c \in {"0", "1", "2", "3", "4", "5", "6", "7", "8", "9"}

UpperCase == "ABCDEFGHIJKLMNOPQRSTUVWXYZ"
LowerCase == "abcdefghijklmnopqrstuvwxyz"

IsLetter(c) == \E i \in 1..26 : Char(UpperCase, i) = c \/ Char(LowerCase, i) = c

\* json_parser_service.py 117: the pattern given to a string with @ and .
EmailPattern == "^[a-zA-Z0-9._%+-]+@[a-zA-Z0-9.-]+\\.[a-zA-Z]{2,}$"

\* the regular expression EmailPattern; $ is the end of the string or the
\* place before a newline that ends it
EmailMatch(s) ==
    LET b == IF Len(s) > 0 /\ Char(s, Len(s)) = "\n" THEN SubSeq(s, 1, Len(s) - 1) ELSE s
        Local(c) == IsLetter(c) \/ IsDigit(c) \/ c \in {".", "_", "%", "+", "-"}
        Domain(c) == IsLetter(c) \/ IsDigit(c) \/ c \in {".", "-"}
    IN  \E i, j \in 1..Len(b) :
            /\ 1 < i /\ i + 1 < j /\ j + 2 <= Len(b)
            /\ Char(b, i) = "@" /\ Char(b, j) = "."
            /\ \A k \in 1..(i - 1) : Local(Char(b, k))
            /\ \A k \in (i + 1)..(j - 1) : Domain(Char(b, k))
            /\ \A k \in (j + 1)..Len(b) : IsLetter(Char(b, k))

\* re.match anchors at the start of the string; re.search does not
Contains(s, c) == \E i \in 1..Len(s) : SubSeq(s, i, i) = c
StartsWith(s, prefix) == Len(s) >= Len(prefix) /\ SubSeq(s, 1, Len(prefix)) = prefix
ReMatch(pattern, s) ==
    CASE pattern = "^a" -> StartsWith(s, "a")
      [] pattern = "^b" -> StartsWith(s, "b")
      [] pattern = "b" -> StartsWith(s, "b")
      [] pattern = EmailPattern -> EmailMatch(s)
      [] OTHER -> FALSE
ReSearch(pattern, s) ==
    CASE pattern = "^a" -> StartsWith(s, "a")
      [] pattern = "^b" -> StartsWith(s, "b")
      [] pattern = "b" -> Contains(s, "b")
      [] pattern = EmailPattern -> EmailMatch(s)
      [] OTHER -> FALSE

\* 398-402: the `constraints` dictionary if it is not empty, else the schema
ConstraintDef(field_schema) ==
    IF field_schema.constraints # <<>> /\ field_schema.constraints[1] # EmptyConstraints
    THEN field_schema.constraints[1]
    ELSE [cons |-> field_schema.cons, pattern |-> field_schema.pattern,
          enum |-> field_schema.enum]

InEnum(value, enum) ==
    CASE value.t = "str" -> value.str \in enum.strs
      [] value.t \in {"int", "bool", "float"} -> ~value.half /\ value.num \in enum.nums
      [] OTHER -> FALSE

\* 380-453
_check_field_constraints(field_value, constraints, field_path) ==
    LET constraint_def == ConstraintDef(constraints)
        c == constraint_def.cons
        field_type == constraints.type    \* "" (absent): type(value).__name__
        Has(k) == k \in DOMAIN c
        hasPattern == constraint_def.pattern # <<>> /\ constraint_def.pattern[1] # ""
        hasEnum == constraint_def.enum # <<>> /\
                   constraint_def.enum[1].strs \cup constraint_def.enum[1].nums # {}
        notInEnum == hasEnum /\ ~InEnum(field_value, constraint_def.enum[1])
    IN  IF field_type = "string" /\ field_value.t = "str" THEN
            If(Has("minLength") /\ Len(field_value.str) < c["minLength"],
               Error(field_path, "minLength"))
            \o If(Has("maxLength") /\ Len(field_value.str) > c["maxLength"],
                  Error(field_path, "maxLength"))
            \o If(hasPattern /\ ~ReMatch(constraint_def.pattern[1], field_value.str),
                  Error(field_path, "pattern"))
            \o If(notInEnum, Error(field_path, "enum"))
        ELSE IF field_type \in {"number", "integer"}
                /\ field_value.t \in {"int", "bool", "float"} THEN
            If(Has("minimum") /\ LessThan(field_value, c["minimum"]),
               Error(field_path, "minimum"))
            \o If(Has("maximum") /\ GreaterThan(field_value, c["maximum"]),
                  Error(field_path, "maximum"))
            \o If(notInEnum, Error(field_path, "enum"))
        ELSE IF field_type = "array" /\ field_value.t = "list" THEN
            If(Has("minItems") /\ Len(field_value.elems) < c["minItems"],
               Error(field_path, "minItems"))
            \o If(Has("maxItems") /\ Len(field_value.elems) > c["maxItems"],
                  Error(field_path, "maxItems"))
        ELSE <<>>

\* 284-350; an exception leaves the call (it is caught at 204)
_fallback_validation(item, schema_, path) ==
    IF item.t # "dict"
    THEN Returned(Extend(NewResult, <<Error(path, "Expected object")>>))
    ELSE IF ~schema_.isDict THEN Raised                     \* schema.get
    ELSE IF schema_.type # "" /\ schema_.type # "object"
    THEN Returned(Extend(NewResult,
                         If(schema_.type = "array", Error(path, "Expected array"))))
    ELSE IF NotIterable(schema_.required) THEN Raised       \* for field in required
    ELSE IF schema_.propsKind = "other" /\ DOMAIN item.fields # {}
    THEN Raised                                             \* properties.get
    ELSE IF schema_.propsKind = "dict"
            /\ \E n \in DOMAIN item.fields \cap DOMAIN schema_.props :
                   ~schema_.props[n].isDict
    THEN Raised                    \* field_schema.get of true, a list, a string
    ELSE
        LET properties == GetProperties(schema_)
            required == SetToSeq(schema_.required.names)
            missing == [i \in 1..Len(required) |->
                          If(required[i] \notin DOMAIN item.fields,
                             Error(path \o "." \o required[i], "Required field is missing"))]
            names == SetToSeq(DOMAIN item.fields)
            checked == [i \in 1..Len(names) |->
                LET field_name == names[i]
                    field_value == item.fields[field_name]
                    field_path == path \o "." \o field_name
                    field_schema == IF field_name \in DOMAIN properties
                                    THEN properties[field_name] ELSE EmptyDict
                IN  IF Truthy(field_schema)
                    THEN If(field_schema.type # ""
                               /\ ~_check_type(field_value, field_schema.type),
                            Error(field_path, "type"))
                         \o _check_field_constraints(field_value, field_schema, field_path)
                    ELSE <<>>]
        IN  Returned(Extend(Extend(NewResult, ConcatAll(missing)), ConcatAll(checked)))

(***************************************************************************)
(* data_validator.py 245-246: Draft7Validator(schema).iter_errors(item),   *)
(* the jsonschema library, for the keywords the schemas here use.  An      *)
(* error carries the validator keyword and error.path, the path of the     *)
(* offending element relative to the item (empty at the item itself).      *)
(***************************************************************************)
Draft7Types == {"string", "number", "integer", "boolean", "object", "array", "null"}

Draft7IsType(value, type) ==
    CASE type = "string" -> value.t = "str"
      [] type = "number" -> value.t \in {"int", "float"}
      [] type = "integer" -> value.t = "int" \/ (value.t = "float" /\ ~value.half)
      [] type = "boolean" -> value.t = "bool"
      [] type = "object" -> value.t = "dict"
      [] type = "array" -> value.t = "list"
      [] type = "null" -> value.t = "null"
      [] OTHER -> FALSE

LibError(relpath, validator) == [relpath |-> relpath, validator |-> validator]

Under(key, errs) ==
    [i \in 1..Len(errs) |-> [errs[i] EXCEPT !.relpath = <<key>> \o @]]

RECURSIVE Draft7Errors(_, _)
Draft7Errors(instance, s) ==
    LET c == s.cons
        Has(k) == k \in DOMAIN c
        isNumber == instance.t \in {"int", "float"}
        propNames == IF instance.t = "dict" /\ s.propsKind = "dict"
                     THEN SetToSeq(DOMAIN s.props \cap DOMAIN instance.fields)
                     ELSE <<>>
        required == IF instance.t = "dict" THEN SetToSeq(s.required.names) ELSE <<>>
        elements == IF instance.t = "list" /\ s.items # <<>> THEN instance.elems ELSE <<>>
    IN  IF ~s.isDict THEN <<>>
        ELSE
            If(s.type # "" /\ ~Draft7IsType(instance, s.type), LibError(<<>>, "type"))
            \o ConcatAll([i \in 1..Len(propNames) |->
                   Under(propNames[i],
                         Draft7Errors(instance.fields[propNames[i]], s.props[propNames[i]]))])
            \o ConcatAll([i \in 1..Len(required) |->
                   If(required[i] \notin DOMAIN instance.fields, LibError(<<>>, "required"))])
            \o ConcatAll([i \in 1..Len(elements) |->
                   Under(ToString(i - 1), Draft7Errors(elements[i], s.items[1]))])
            \o If(instance.t = "str" /\ Has("minLength")
                     /\ Len(instance.str) < c["minLength"], LibError(<<>>, "minLength"))
            \o If(instance.t = "str" /\ Has("maxLength")
                     /\ Len(instance.str) > c["maxLength"], LibError(<<>>, "maxLength"))
            \o If(instance.t = "str" /\ s.pattern # <<>>
                     /\ ~ReSearch(s.pattern[1], instance.str), LibError(<<>>, "pattern"))
            \o If(isNumber /\ Has("minimum") /\ LessThan(instance, c["minimum"]),
                  LibError(<<>>, "minimum"))
            \o If(isNumber /\ Has("maximum") /\ GreaterThan(instance, c["maximum"]),
                  LibError(<<>>, "maximum"))
            \o If(instance.t = "list" /\ Has("minItems")
                     /\ Len(instance.elems) < c["minItems"], LibError(<<>>, "minItems"))
            \o If(instance.t = "list" /\ Has("maxItems")
                     /\ Len(instance.elems) > c["maxItems"], LibError(<<>>, "maxItems"))
            \o If(s.enum # <<>> /\ ~InEnum(instance, s.enum[1]), LibError(<<>>, "enum"))

\* iter_errors raises on a schema that is no object (a list, a number, None),
\* on a `type` it does not know (date, datetime) and on `properties` that is
\* no object; the exception is caught at 277
RECURSIVE Draft7Raises(_, _)
Draft7Raises(instance, s) ==
    IF ~s.isDict THEN TRUE
    ELSE
       \/ s.type # "" /\ s.type \notin Draft7Types
       \/ s.propsKind = "other" /\ instance.t = "dict"
       \/ /\ instance.t = "dict" /\ s.propsKind = "dict"
          /\ \E n \in DOMAIN s.props \cap DOMAIN instance.fields :
                Draft7Raises(instance.fields[n], s.props[n])
       \/ /\ instance.t = "list" /\ s.items # <<>>
          /\ \E i \in DOMAIN instance.elems : Draft7Raises(instance.elems[i], s.items[1])

\* ".".join(str(p) for p in error.path)
RECURSIVE JoinPath(_)
JoinPath(relpath) ==
    IF Len(relpath) = 1 THEN relpath[1]
    ELSE relpath[1] \o "." \o JoinPath(Tail(relpath))

\* 251: the path of an error of the library
ErrorPath(relpath, path) == IF relpath # <<>> THEN JoinPath(relpath) ELSE path

\* 211-282; on the library path every exception is caught (267-280)
_validate_item(item, schema_, path, jsonschema_available) ==
    IF ~jsonschema_available THEN _fallback_validation(item, schema_, path)
    ELSE
        LET schema2 == _normalize_schema(schema_)
            errors == Draft7Errors(item, schema2)
        IN  IF Draft7Raises(item, schema2)
            THEN Returned(Extend(NewResult, <<Error("", "Schema validation error")>>))
            ELSE Returned(
                   [Extend(NewResult,
                           [i \in 1..Len(errors) |->
                               Error(ErrorPath(errors[i].relpath, path),
                                     errors[i].validator)])
                    EXCEPT !.details =
                           [i \in 1..Len(errors) |->
                               Error(ErrorPath(errors[i].relpath, path),
                                     errors[i].validator)]])

ItemPath(idx) == "item[" \o ToString(idx) \o "]"

\* 187-195: the loop over a list, from element idx (0-based) on
RECURSIVE ValidateItems(_, _, _, _, _)
ValidateItems(res, items, idx, normalized_schema, jsonschema_available) ==
    IF idx >= Len(items) THEN res
    ELSE LET item_result == _validate_item(items[idx + 1], normalized_schema,
                                           ItemPath(idx), jsonschema_available)
         IN  IF item_result.raised
             THEN Extend(res, <<Error("", "Validation error")>>)        \* 204-207
             ELSE ValidateItems(
                    IF item_result.value.valid THEN res
                    ELSE [res EXCEPT
                            !.valid = FALSE,
                            !.errors = @ \o item_result.value.errors,
                            !.warnings = @ \o item_result.value.warnings,
                            !.details = @ \o item_result.value.details],
                    items, idx + 1, normalized_schema, jsonschema_available)

\* 143-209
validate_against_schema(data_, schema_, jsonschema_available) ==
    LET normalized_schema == _normalize_schema(schema_)
        parsed == IF data_.t = "text" /\ data_.elems # <<>> THEN data_.elems[1] ELSE data_
    IN  IF data_.t = "text" /\ data_.elems = <<>>
        THEN Extend(NewResult, <<Error("", "Invalid JSON format")>>)
        ELSE IF parsed.t = "list"
        THEN ValidateItems(NewResult, parsed.elems, 0, normalized_schema,
                           jsonschema_available)
        ELSE LET item_result == _validate_item(parsed, normalized_schema, "root",
                                               jsonschema_available)
             IN  IF item_result.raised
                 THEN Extend(NewResult, <<Error("", "Validation error")>>)
                 ELSE item_result.value

(***************************************************************************)
(* data_validator.py 174-176: the caller's schema after                    *)
(* validate_against_schema.  The normalizer is given copy.deepcopy(schema) *)
(* and every later use is of that copy.                                    *)
(***************************************************************************)
schema_after(schema_) ==
    AfterWrites(schema_, _normalize_schema(schema_), TRUE)

(***************************************************************************)
(* Inputs of the validator.                                                *)
(***************************************************************************)
Object(props, required_names) ==
    WithRequired(WithProps(Typed("object"), props), ReqList(required_names))

NameSchema == Bounded("string", Two("minLength", 2, "maxLength", 4))

ValidatorSchemas ==
    {Object(One("n", NameSchema), {"n"}),
     Object(One("n", Bounded("integer", One("minimum", 5))), {}),
     Object(One("n", Bounded("number", One("maximum", 10))), {"n", "m"}),
     WithProps(EmptyDict,
               One("n", [Typed("string") EXCEPT
                           !.pattern = <<"b">>,
                           !.enum = <<[strs |-> {"ab", "b"}, nums |-> {}]>>])),
     Object(One("n", [Typed("integer") EXCEPT !.enum = <<[strs |-> {}, nums |-> {1, 7}]>>]), {}),
     Object(One("p", Object(One("x", Typed("string")), {"x"})), {}),
     Object(One("p", Object(One("x", Typed("string")), {})), {}),
     Object(One("n", Bounded("array", Two("minItems", 1, "maxItems", 2))), {}),
     Object(One("n", [EmptyDict EXCEPT !.cons = One("minLength", 2)]), {}),
     Object(One("n", Typed("boolean")), {}),
     Object(One("n", Typed("date")), {}),
     Object(One("n", [NameSchema EXCEPT
                        !.constraints = <<[EmptyConstraints EXCEPT
                                             !.cons = One("maxLength", 1)]>>]), {}),
     Object(One("n", WithRequired(Typed("string"), ReqBool(TRUE))), {}),
     WithRequired(WithProps(EmptyDict, One("n", Typed("string"))), ReqBool(TRUE)),
     WithProps(EmptyDict, One("data", Object(One("n", NameSchema), {"n"}))),
     Typed("array"),
     Typed("string"),
     [Typed("object") EXCEPT !.propsKind = "other"],
     NonDict}

FieldValues ==
    {StrValue("a"), StrValue("ab"), StrValue("abcde"), StrValue("b"),
     IntValue(3), IntValue(7), IntValue(12), FloatValue(3, TRUE), FloatValue(7, FALSE),
     BoolValue(TRUE), NullValue,
     ListValue(<<>>), ListValue(<<IntValue(1), IntValue(2), IntValue(3)>>),
     DictValue(One("x", StrValue("a")))}

ValidatorItems ==
    {DictValue(NoProps), IntValue(1),
     DictValue(One("p", DictValue(One("x", StrValue("a"))))),
     DictValue(One("p", DictValue(NoProps))),
     DictValue(One("p", DictValue(One("x", IntValue(3))))),
     DictValue(Two("n", StrValue("a"), "m", IntValue(3)))}
    \cup {DictValue(One("n", v)) : v \in FieldValues}

ListItems ==
    {DictValue(NoProps), IntValue(1),
     DictValue(One("n", StrValue("a"))), DictValue(One("n", StrValue("ab"))),
     DictValue(One("n", IntValue(3))),
     DictValue(One("p", DictValue(One("x", StrValue("a")))))}

ValidatorData ==
    ValidatorItems
    \cup {ListValue(q) : q \in SeqsUpTo(ListItems, MaxItems)}
    \cup {BadJsonText, JsonText(StrValue("a")),
          JsonText(DictValue(One("n", StrValue("a")))),
          JsonText(ListValue(<<DictValue(One("n", StrValue("a")))>>))}

InitValidate ==
    /\ pc = "start"
    /\ schema \in ValidatorSchemas
    /\ data \in ValidatorData
    /\ JSONSCHEMA_AVAILABLE \in BOOLEAN
    /\ result = NewResult
    /\ normalized = EmptyDict
    /\ renormalized = EmptyDict
    /\ MergeIdle
    /\ DocumentsIdle
    /\ FlowIdle
    /\ ParserIdle

Validate ==
    /\ pc = "start"
    /\ normalized' = _normalize_schema(schema)
    /\ result' = validate_against_schema(data, schema, JSONSCHEMA_AVAILABLE)
    /\ schema' = schema_after(schema)
    /\ pc' = "validated"
    /\ UNCHANGED <<renormalized, data, JSONSCHEMA_AVAILABLE, mergeVars, docVars, flowVars, parserVars>>

NextValidate == Validate

SpecValidate == InitValidate /\ [][NextValidate]_vars

(***************************************************************************)
(* C8: every result of validate_against_schema has valid exactly when its  *)
(* errors are empty, on the library path, the fallback path and the        *)
(* exception path.                                                         *)
(***************************************************************************)
C8_ValidIffNoErrors ==
    pc = "validated" => (result.valid <=> result.errors = <<>>)

C8_Witness ==
    /\ pc = "validated"
    /\ data.t = "list"
    /\ ~result.valid
    /\ \E i \in DOMAIN result.errors : result.errors[i].check = "Validation error"
    /\ \E i \in DOMAIN result.errors : result.errors[i].check = "Expected object"

(***************************************************************************)
(* C9: validating one object against an object schema (whose bounds are    *)
(* keys of the property schemas) gives exactly one error per name of       *)
(* `required` absent from the data, one per present property whose value   *)
(* does not match its declared type, one per violated constraint of a      *)
(* property whose type matches, and no other error.                        *)
(***************************************************************************)
C9_TypeMatches(value, type) ==
    CASE type = "string" -> value.t = "str"
      [] type = "number" -> value.t \in {"int", "bool", "float"}
      [] type = "integer" -> value.t \in {"int", "bool"}
      [] type = "boolean" -> value.t = "bool"
      [] type = "object" -> value.t = "dict"
      [] type = "array" -> value.t = "list"
      [] OTHER -> TRUE

C9_Violates(value, s, k) ==
    LET Has(b) == b \in DOMAIN s.cons
        inEnum == IF value.t = "str" THEN value.str \in s.enum[1].strs
                  ELSE ~value.half /\ value.num \in s.enum[1].nums
    IN  CASE k = "minLength" -> s.type = "string" /\ Has(k) /\ Len(value.str) < s.cons[k]
          [] k = "maxLength" -> s.type = "string" /\ Has(k) /\ Len(value.str) > s.cons[k]
          [] k = "pattern" -> s.type = "string" /\ s.pattern # <<>>
                              /\ ~ReMatch(s.pattern[1], value.str)
          [] k = "enum" -> s.type \in {"string", "number", "integer"} /\ s.enum # <<>>
                           /\ ~inEnum
          [] k = "minimum" -> s.type \in {"number", "integer"} /\ Has(k)
                              /\ LessThan(value, s.cons[k])
          [] k = "maximum" -> s.type \in {"number", "integer"} /\ Has(k)
                              /\ GreaterThan(value, s.cons[k])
          [] k = "minItems" -> s.type = "array" /\ Has(k) /\ Len(value.elems) < s.cons[k]
          [] k = "maxItems" -> s.type = "array" /\ Has(k) /\ Len(value.elems) > s.cons[k]

C9_Checks ==
    {"minLength", "maxLength", "pattern", "enum", "minimum", "maximum",
     "minItems", "maxItems"}

C9_Expected ==
    LET present == DOMAIN schema.props \cap DOMAIN data.fields
        typed == {n \in present : schema.props[n].type # ""}
        matching == {n \in typed : C9_TypeMatches(data.fields[n], schema.props[n].type)}
    IN  {Error("root." \o n, "Required field is missing") :
            n \in schema.required.names \ DOMAIN data.fields}
        \cup {Error("root." \o n, "type") : n \in typed \ matching}
        \cup {Error("root." \o pair[1], pair[2]) :
                 pair \in {q \in matching \X C9_Checks :
                             C9_Violates(data.fields[q[1]], schema.props[q[1]], q[2])}}

C9_Applies ==
    /\ pc = "validated"
    /\ ~JSONSCHEMA_AVAILABLE
    /\ data.t = "dict"
    /\ schema.isDict /\ schema.type = "object" /\ schema.propsKind = "dict"
    /\ schema.required.kind = "list"
    /\ \A n \in DOMAIN schema.props : schema.props[n].constraints = <<>>

C9_OneErrorPerFailedCheck ==
    C9_Applies =>
        /\ {result.errors[i] : i \in DOMAIN result.errors} = C9_Expected
        /\ Len(result.errors) = Cardinality(C9_Expected)

(***************************************************************************)
(* C10: for list data each element is validated on its own, the result is  *)
(* invalid iff some element is, the errors are the elements' errors in     *)
(* index order, and each error of element i has a path that starts with    *)
(* item[i].                                                                *)
(***************************************************************************)
C10_PerItem(i) ==
    _validate_item(data.elems[i], _normalize_schema(schema), ItemPath(i - 1),
                   JSONSCHEMA_AVAILABLE)

C10_ListErrorsPrefixed ==
    (pc = "validated" /\ data.t = "list"
       /\ \A i \in DOMAIN data.elems : ~C10_PerItem(i).raised) =>
        /\ result.valid <=> \A i \in DOMAIN data.elems : C10_PerItem(i).value.valid
        /\ result.errors =
              ConcatAll([i \in DOMAIN data.elems |-> C10_PerItem(i).value.errors])
        /\ \A i \in DOMAIN data.elems :
              \A j \in DOMAIN C10_PerItem(i).value.errors :
                  StartsWith(C10_PerItem(i).value.errors[j].path, ItemPath(i - 1))

(***************************************************************************)
(* data_validator.py 164-209: what a call of validate_against_schema gives *)
(* its caller.  The whole body after the construction of `result` is       *)
(* inside try / except Exception (171, 204), so the call always returns.   *)
(***************************************************************************)
ValidateCall(data_, schema_, jsonschema_available) ==
    Returned(validate_against_schema(data_, schema_, jsonschema_available))

ParsedData(data_) ==
    IF data_.t = "text" /\ data_.elems # <<>> THEN data_.elems[1] ELSE data_

(***************************************************************************)
(* C11: validate_against_schema raises, and returns no result, exactly     *)
(* when the normalized schema is unusable (no object at top level while    *)
(* the data is no list); such a schema is never reported in `errors`.      *)
(***************************************************************************)
C11_Unusable ==
    /\ ~_normalize_schema(schema).isDict
    /\ data # BadJsonText
    /\ ParsedData(data).t # "list"

C11_RaisesIffUnusable ==
    pc = "validated" =>
        LET outcome == ValidateCall(data, schema, JSONSCHEMA_AVAILABLE)
        IN  /\ outcome.raised <=> C11_Unusable
            /\ (~outcome.raised /\ C11_Unusable) => outcome.value.errors = <<>>

(***************************************************************************)
(* The two services side by side: a caller that holds schemas and calls    *)
(* merge_schemas or validate_against_schema on them.                       *)
(***************************************************************************)
InitFrame == InitMerge \/ InitValidate

NextFrame == Merge \/ Validate

SpecFrame == InitFrame /\ [][NextFrame]_vars

C13_WitnessValidate ==
    /\ pc = "validated"
    /\ normalized # schema
    /\ schema.isDict

(***************************************************************************)
(* document_workflow_processor.py: process_multiple_documents.             *)
(*                                                                         *)
(* A document context (a dict of 369-374, 461-474, 491-494 or 527-530)     *)
(* is a record with one field per key the aggregation reads.  A field      *)
(* definition has its optional keys `required` and `constraints` as        *)
(* empty or one-element tuples.                                            *)
(***************************************************************************)
Field(name, type, required, constraints) ==
    [name |-> name, type |-> type, required |-> required, constraints |-> constraints]

Entity(name, fields) == [name |-> name, fields |-> fields]

EmptyContext ==
    [context_type |-> "", fields |-> <<>>, schema |-> "", examples |-> <<>>,
     test_points |-> <<>>, entities |-> <<>>, business_rules |-> <<>>,
     raw_content |-> ""]

SchemaContext(fields, schema_, examples) ==
    [EmptyContext EXCEPT !.context_type = "schema", !.fields = fields,
                         !.schema = schema_, !.examples = examples]

TestPointsContext(test_points, entities, business_rules) ==
    [EmptyContext EXCEPT !.context_type = "test_points", !.test_points = test_points,
                         !.entities = entities, !.business_rules = business_rules,
                         !.raw_content = "raw"]

RawContext == [EmptyContext EXCEPT !.context_type = "raw_content", !.raw_content = "raw"]

\* 526-530: _extract_document_context caught an exception
ErrorContext == [EmptyContext EXCEPT !.context_type = "error"]

\* what processing one document gives: _ensure_document_parsed raises, or
\* the document has a type and a context
Processed(document_type, document_context) ==
    [raises |-> FALSE, document_type |-> document_type,
     document_context |-> document_context]

ParseFails == [raises |-> TRUE, document_type |-> "unknown", document_context |-> EmptyContext]

DocumentOutcomes ==
    {Processed("api", SchemaContext(<<Field("a", "string", <<FALSE>>, <<>>)>>,
                                    "s1", <<"e1", "e2">>)),
     Processed("api", SchemaContext(<<Field("a", "integer", <<TRUE>>, <<>>)>>,
                                    "s2", <<"e3", "e4">>)),
     Processed("api", SchemaContext(<<Field("b", "string", <<>>, <<>>)>>,
                                    "s3", <<"e5", "e6">>)),
     Processed("api", SchemaContext(<<Field("a", "number", <<>>,
                                            <<Two("minimum", 7, "maximum", 9)>>),
                                      Field("a", "number", <<>>,
                                            <<Two("minimum", 5, "maximum", 8)>>)>>,
                                    "s4", <<>>)),
     Processed("api", ErrorContext),
     ParseFails,
     Processed("requirement",
               TestPointsContext(<<"t1">>,
                                 <<Entity("E", <<<<"f1">>>>),
                                   Entity("E", <<<<"f1", "f2">>>>)>>,
                                 <<"r1">>)),
     Processed("requirement",
               TestPointsContext(<<"t2">>,
                                 <<Entity("E", <<<<"f3", "f3">>>>), Entity("F", <<>>)>>,
                                 <<"r2">>)),
     Processed("requirement",
               TestPointsContext(<<>>, <<Entity("F", <<<<"f1">>>>)>>, <<>>)),
     Processed("unknown", RawContext)}

\* document_ids: the ids of the documents, here their (1-based) positions
document_ids_of(docs) == [i \in 1..Len(docs) |-> i]

(***************************************************************************)
(* 684-728: _process_single_document_for_merge, one task of the gather.    *)
(***************************************************************************)
NoResult ==
    [document_id |-> 0, document_name |-> "", document_type |-> "",
     document_context |-> EmptyContext]

Pending == [done |-> FALSE, raised |-> FALSE, value |-> NoResult]

_process_single_document_for_merge(document_id, doc) ==
    IF doc.raises THEN [done |-> TRUE, raised |-> TRUE, value |-> NoResult]
    ELSE [done |-> TRUE, raised |-> FALSE,
          value |-> [document_id |-> document_id,
                     document_name |-> "doc" \o ToString(document_id),
                     document_type |-> doc.document_type,
                     document_context |-> doc.document_context]]

(***************************************************************************)
(* 586: asyncio.gather with return_exceptions=True gives the results       *)
(* in the order of the tasks, whatever the order they finished in.         *)
(***************************************************************************)
ResultsAsCompleted(results, finished) ==
    [k \in 1..Len(finished) |-> results[finished[k]]]

gather(results, finished) == [i \in 1..Len(results) |-> results[i]]

\* 594-617: the entries of one of api_docs, requirement_docs, unknown_docs
RECURSIVE GroupDocs(_, _, _)
GroupDocs(results, i, group) ==
    IF i > Len(results) THEN <<>>
    ELSE LET r == results[i]
             doc_type == IF r.value.document_type \in {"api", "requirement"}
                         THEN r.value.document_type ELSE "unknown"
         IN  (IF ~r.raised /\ doc_type = group
              THEN <<[document_id |-> document_ids_of(results)[i],
                      document_name |-> r.value.document_name,
                      context |-> r.value.document_context]>>
              ELSE <<>>)
             \o GroupDocs(results, i + 1, group)

First(q, n) == SubSeq(q, 1, IF Len(q) < n THEN Len(q) ELSE n)

IsTrue(opt) == opt = <<TRUE>>

\* the entry takes a bound only where it has none: the first one stays
FirstBoundStays(existing, field) ==
    LET ec == IF existing.constraints = <<>> THEN NoProps ELSE existing.constraints[1]
        fc == IF field.constraints = <<>> THEN NoProps ELSE field.constraints[1]
        taken == {key \in {"minLength", "maxLength", "minimum", "maximum"} \cap DOMAIN fc :
                     key \notin DOMAIN ec}
    IN  [existing EXCEPT
           !.required = IF IsTrue(field.required) /\ ~IsTrue(existing.required)
                        THEN <<TRUE>> ELSE @,
           !.constraints = IF taken = {} THEN @
                           ELSE <<[key \in DOMAIN ec \cup taken |->
                                     IF key \in taken THEN fc[key] ELSE ec[key]]>>]

\* 774-788: an existing entry of field_map takes the stricter of its own and
\* the new field's `required` and bounds
StricterField(existing, field) ==
    LET ec == IF existing.constraints = <<>> THEN NoProps ELSE existing.constraints[1]
        fc == IF field.constraints = <<>> THEN NoProps ELSE field.constraints[1]
        taken == {key \in {"minLength", "maxLength", "minimum", "maximum"} \cap DOMAIN fc :
                     \/ key \notin DOMAIN ec
                     \/ key \in {"minLength", "minimum"} /\ fc[key] > ec[key]
                     \/ key \in {"maxLength", "maximum"} /\ fc[key] < ec[key]}
    IN  [existing EXCEPT
           !.required = IF IsTrue(field.required) /\ ~IsTrue(existing.required)
                        THEN <<TRUE>> ELSE @,
           !.constraints = IF taken = {} THEN @
                           ELSE <<[key \in DOMAIN ec \cup taken |->
                                     IF key \in taken THEN fc[key] ELSE ec[key]]>>]

\* 770-790: field_map, a dict in insertion order, after one more field
AddField(field_map, field) ==
    IF \E k \in DOMAIN field_map : field_map[k].name = field.name
    THEN [k \in DOMAIN field_map |->
            IF field_map[k].name = field.name THEN StricterField(field_map[k], field)
            ELSE field_map[k]]
    ELSE Append(field_map, field)

RECURSIVE AddFields(_, _)
AddFields(field_map, fields) ==
    IF fields = <<>> THEN field_map
    ELSE AddFields(AddField(field_map, Head(fields)), Tail(fields))

\* 761-793: the loop over api_docs
RECURSIVE MergeApiDocs(_, _)
MergeApiDocs(acc, api_docs) ==
    IF api_docs = <<>> THEN acc
    ELSE LET context == Head(api_docs).context
         IN  MergeApiDocs(
                 IF context.context_type = "schema"
                 THEN [fields |-> AddFields(acc.fields, context.fields),
                       schemas |-> Append(acc.schemas, context.schema),
                       examples |-> acc.examples \o context.examples]
                 ELSE acc,
                 Tail(api_docs))

\* 821-831: entity_map after one more entity; an entity's `fields` is a
\* one-element tuple holding the list, or empty when the key is absent
AddEntity(entity_map, entity) ==
    IF \E k \in DOMAIN entity_map : entity_map[k].name = entity.name
    THEN [k \in DOMAIN entity_map |->
            IF entity_map[k].name # entity.name \/ entity_map[k].fields = <<>>
            THEN entity_map[k]
            ELSE LET existing_fields == entity_map[k].fields[1]
                     new_fields == IF entity.fields = <<>> THEN <<>> ELSE entity.fields[1]
                     field_names == {existing_fields[j] : j \in DOMAIN existing_fields}
                 IN  [entity_map[k] EXCEPT
                        !.fields = <<existing_fields
                                     \o SelectSeq(new_fields,
                                                  LAMBDA f : f \notin field_names)>>]]
    ELSE Append(entity_map, entity)

RECURSIVE AddEntities(_, _)
AddEntities(entity_map, entities) ==
    IF entities = <<>> THEN entity_map
    ELSE AddEntities(AddEntity(entity_map, Head(entities)), Tail(entities))

\* 810-838: the loop over requirement_docs
RECURSIVE MergeRequirementDocs(_, _)
MergeRequirementDocs(acc, requirement_docs) ==
    IF requirement_docs = <<>> THEN acc
    ELSE LET context == Head(requirement_docs).context
         IN  MergeRequirementDocs(
                 IF context.context_type = "test_points"
                 THEN [acc EXCEPT
                         !.test_points = @ \o context.test_points,
                         !.entities = AddEntities(@, context.entities),
                         !.business_rules = @ \o context.business_rules]
                 ELSE IF context.context_type = "raw_content"
                 THEN [acc EXCEPT !.raw_content = @ \o <<context.raw_content>>]
                 ELSE acc,
                 Tail(requirement_docs))

\* 730-857
_merge_document_contexts(api_docs, requirement_docs, unknown_docs) ==
    LET api == MergeApiDocs([fields |-> <<>>, schemas |-> <<>>, examples |-> <<>>],
                            api_docs)
        req == MergeRequirementDocs([test_points |-> <<>>, entities |-> <<>>,
                                     business_rules |-> <<>>, raw_content |-> <<>>],
                                    requirement_docs)
        raw_contents == [k \in DOMAIN SelectSeq(unknown_docs,
                                LAMBDA d : d.context.context_type = "raw_content") |->
                            "raw"]
        raw_content == req.raw_content \o raw_contents
    IN  [context_type |-> "mixed",
         has_api_context |-> api_docs # <<>>,
         has_requirement_context |-> requirement_docs # <<>>,
         api_context |-> IF api_docs = <<>> THEN <<>>
                         ELSE <<[fields |-> api.fields, schemas |-> api.schemas,
                                 examples |-> First(api.examples, 5)]>>,
         requirement_context |-> IF requirement_docs = <<>> THEN <<>>
                                 ELSE <<[test_points |-> First(req.test_points, 10),
                                         entities |-> req.entities,
                                         business_rules |-> First(req.business_rules, 20)]>>,
         raw_content |-> IF raw_content = <<>> THEN <<>> ELSE <<raw_content>>]

\* 589-620: the grouping of the gathered results and the merge
MergedContextOf(gathered) ==
    _merge_document_contexts(GroupDocs(gathered, 1, "api"),
                             GroupDocs(gathered, 1, "requirement"),
                             GroupDocs(gathered, 1, "unknown"))

\* 533-682; the generation step (626-632) is a call of the language model
\* that returns content or raises, and a raise leaves the workflow (682)
process_multiple_documents(gathered, generation_raises) ==
    IF generation_raises THEN [raised |-> TRUE, value |-> NoProps]
    ELSE [raised |-> FALSE,
          value |->
            [success |-> TRUE,
             generated_data |-> "generated",
             format |-> "json",
             usage |-> "usage",
             workflow_metadata |->
                [document_ids |-> document_ids_of(gathered),
                 api_docs_count |-> Len(GroupDocs(gathered, 1, "api")),
                 requirement_docs_count |-> Len(GroupDocs(gathered, 1, "requirement")),
                 unknown_docs_count |-> Len(GroupDocs(gathered, 1, "unknown")),
                 context_extracted |-> TRUE,
                 context_type |-> "mixed"],
             document_context |-> MergedContextOf(gathered)]]

(***************************************************************************)
(* 761-831: the per-document results after _merge_document_contexts.  The  *)
(* context of a result is the very dict the merge reads (599, 605).  The   *)
(* first occurrence of a field name is kept as field.copy() (790) and of   *)
(* an entity name as entity.copy() (823): the copy's own keys are its own, *)
(* but its `constraints` dict and its `fields` list are the document's.    *)
(* existing["constraints"][key] = ... (788) and existing_fields.append     *)
(* (831) so write into the document, unless the key was absent and the     *)
(* dict or list was made for the copy (787, 826).                          *)
(***************************************************************************)
IsSchemaResult(r) ==
    /\ ~r.raised
    /\ r.value.document_type = "api"
    /\ r.value.document_context.context_type = "schema"

IsTestPointsResult(r) ==
    /\ ~r.raised
    /\ r.value.document_type = "requirement"
    /\ r.value.document_context.context_type = "test_points"

\* the field (or entity) j of result i is the first of its name
FirstOfName(gathered, i, j, IsSource(_), Items(_)) ==
    /\ \A i2 \in 1..(i - 1) :
          IsSource(gathered[i2]) =>
             \A j2 \in DOMAIN Items(gathered[i2]) :
                Items(gathered[i2])[j2].name # Items(gathered[i])[j].name
    /\ \A j2 \in 1..(j - 1) : Items(gathered[i])[j2].name # Items(gathered[i])[j].name

Named(entries, name) == entries[CHOOSE k \in DOMAIN entries : entries[k].name = name]

ResultFields(r) == r.value.document_context.fields

ResultEntities(r) == r.value.document_context.entities

document_results_after(gathered) ==
    LET merged_context == MergedContextOf(gathered)
    IN  [i \in DOMAIN gathered |->
           IF IsSchemaResult(gathered[i])
           THEN [gathered[i] EXCEPT !.value.document_context.fields =
                   [j \in DOMAIN @ |->
                      IF FirstOfName(gathered, i, j, IsSchemaResult, ResultFields)
                      THEN [@[j] EXCEPT !.constraints =
                              AfterWrites(@,
                                          Named(merged_context.api_context[1].fields,
                                                ResultFields(gathered[i])[j].name).constraints,
                                          ResultFields(gathered[i])[j].constraints = <<>>)]
                      ELSE @[j]]]
           ELSE IF IsTestPointsResult(gathered[i])
           THEN [gathered[i] EXCEPT !.value.document_context.entities =
                   [j \in DOMAIN @ |->
                      IF FirstOfName(gathered, i, j, IsTestPointsResult, ResultEntities)
                      THEN [@[j] EXCEPT !.fields =
                              AfterWrites(@,
                                          Named(merged_context.requirement_context[1].entities,
                                                ResultEntities(gathered[i])[j].name).fields,
                                          ResultEntities(gathered[i])[j].fields = <<>>)]
                      ELSE @[j]]]
           ELSE gathered[i]]

InitDocuments ==
    /\ pc = "start"
    /\ documents \in SeqsUpTo(DocumentOutcomes, MaxDocs)
    /\ document_results = [i \in 1..Len(documents) |-> Pending]
    /\ completed = <<>>
    /\ workflow_result = [raised |-> FALSE, value |-> NoProps]
    /\ NormalizeIdle
    /\ MergeIdle
    /\ ValidateIdle
    /\ FlowIdle
    /\ ParserIdle

\* one of the concurrent tasks finishes; any pending one may be next
TaskCompletes(i) ==
    /\ pc = "start"
    /\ ~document_results[i].done
    /\ document_results' =
          [document_results EXCEPT
             ![i] = _process_single_document_for_merge(document_ids_of(documents)[i],
                                                        documents[i])]
    /\ completed' = Append(completed, i)
    /\ UNCHANGED <<pc, documents, workflow_result, normVars, mergeVars, validateVars,
                   flowVars, parserVars>>

\* the gather returns once every task has finished; steps 2 to 6
Aggregate ==
    /\ pc = "start"
    /\ \A i \in DOMAIN document_results : document_results[i].done
    /\ \E generation_raises \in BOOLEAN :
          workflow_result' =
              process_multiple_documents(gather(document_results, completed),
                                         generation_raises)
    /\ document_results' = document_results_after(gather(document_results, completed))
    /\ pc' = "processed"
    /\ UNCHANGED <<documents, completed,
                   normVars, mergeVars, validateVars, flowVars, parserVars>>

NextDocuments == (\E i \in DOMAIN document_results : TaskCompletes(i)) \/ Aggregate

SpecDocuments == InitDocuments /\ [][NextDocuments]_vars

(***************************************************************************)
(* C14: whatever the order in which the extraction tasks finish, the       *)
(* merged context is the one obtained by aggregating the documents'        *)
(* results in input-list order; for documents contributing the fields      *)
(* a (required false), a (required true), b in that order the field list   *)
(* has exactly two entries and a is required.                              *)
(***************************************************************************)
C14_InListOrder ==
    [i \in 1..Len(documents) |->
        _process_single_document_for_merge(document_ids_of(documents)[i], documents[i])]

C14_ExampleDocuments ==
    <<Processed("api", SchemaContext(<<Field("a", "string", <<FALSE>>, <<>>)>>,
                                     "s1", <<"e1", "e2">>)),
      Processed("api", SchemaContext(<<Field("a", "integer", <<TRUE>>, <<>>)>>,
                                     "s2", <<"e3", "e4">>)),
      Processed("api", SchemaContext(<<Field("b", "string", <<>>, <<>>)>>,
                                     "s3", <<"e5", "e6">>))>>

C14_OrderIndependent ==
    (pc = "processed" /\ ~workflow_result.raised) =>
        /\ workflow_result.value.document_context = MergedContextOf(C14_InListOrder)
        /\ documents = C14_ExampleDocuments =>
              LET fields == workflow_result.value.document_context.api_context[1].fields
              IN  /\ Len(fields) = 2
                  /\ \E k \in DOMAIN fields :
                        fields[k].name = "a" /\ fields[k].required = <<TRUE>>

\* the example, with the third task finishing first and the first one last
C14_Witness ==
    /\ pc = "processed"
    /\ ~workflow_result.raised
    /\ documents = C14_ExampleDocuments
    /\ completed = <<3, 2, 1>>

(***************************************************************************)
(* C15: when the extraction of some documents fails, the aggregation goes  *)
(* on: every successfully processed document contributes to the merged     *)
(* context, and the returned result reports the index (or id) of every     *)
(* failed document separately.                                             *)
(***************************************************************************)
C15_Failed ==
    {i \in DOMAIN documents :
        documents[i].raises \/ documents[i].document_context.context_type = "error"}

\* the failed documents a returned result names, under a key of the result
\* or of its workflow_metadata
C15_Reported(returned) ==
    IF "failed_documents" \in DOMAIN returned THEN returned.failed_documents
    ELSE IF "failed_documents" \in DOMAIN returned.workflow_metadata
    THEN returned.workflow_metadata.failed_documents
    ELSE {}

C15_Incorporated(merged_context) ==
    \A i \in DOMAIN documents \ C15_Failed :
        LET doc == documents[i]
            context == doc.document_context
        IN  /\ (doc.document_type = "api" /\ context.context_type = "schema") =>
                  /\ merged_context.has_api_context
                  /\ \E k \in DOMAIN merged_context.api_context[1].schemas :
                        merged_context.api_context[1].schemas[k] = context.schema
                  /\ \A j \in DOMAIN context.fields :
                        \E k \in DOMAIN merged_context.api_context[1].fields :
                            merged_context.api_context[1].fields[k].name
                                = context.fields[j].name
            /\ (doc.document_type = "requirement") =>
                  /\ merged_context.has_requirement_context
                  /\ \A j \in DOMAIN context.test_points :
                        \E k \in DOMAIN merged_context.requirement_context[1].test_points :
                            merged_context.requirement_context[1].test_points[k]
                                = context.test_points[j]
            /\ (doc.document_type = "unknown") => merged_context.raw_content # <<>>

C15_FailuresReported ==
    (pc = "processed" /\ ~workflow_result.raised) =>
        /\ C15_Incorporated(workflow_result.value.document_context)
        /\ C15_Reported(workflow_result.value) = C15_Failed

\* the part of C15 the code keeps: the aggregation is not aborted
C15_NotAborted ==
    (pc = "processed" /\ ~workflow_result.raised) =>
        C15_Incorporated(workflow_result.value.document_context)

(***************************************************************************)
(* api/v1/data_generation.py generate_data and                             *)
(* template_workflow_processor.py process_template_workflow: the ways a    *)
(* schema extracted from a document (document_context["schema"], the       *)
(* output of the language model) reaches the validator or the merger.      *)
(* `calls` keeps each such call: its name, the schema handed in and the    *)
(* schema that came out.                                                   *)
(***************************************************************************)
Call(op, schema_, output) == [op |-> op, schema |-> schema_, output |-> output]

\* validate_against_schema on a schema from a document: 176 normalizes, and
\* 187-202 hand the normalized schema to _validate_item
ValidationCalls(schema_) ==
    <<Call("_normalize_schema", schema_, _normalize_schema(schema_)),
      Call("_validate_item", _normalize_schema(schema_), None)>>

TemplateSchemas ==
    {Object(One("n", NameSchema), {"n"}),
     Object(One("m", Typed("integer")), {}),
     Object(Two("n", Typed("string"), "p", Typed("object")), {"p"})}

GeneratedData ==
    {DictValue(NoProps),
     DictValue(One("n", StrValue("ab"))),
     ListValue(<<DictValue(One("n", StrValue("a")))>>)}

InitGeneration ==
    /\ pc = "start"
    /\ primary \in TemplateSchemas
    /\ secondary \in (ValidatorSchemas \ {NonDict}) \cup {EmptyDict}
    /\ merged = Returned(EmptyDict)
    /\ data \in GeneratedData
    /\ JSONSCHEMA_AVAILABLE \in BOOLEAN
    /\ result = NewResult
    /\ calls = <<>>
    /\ NormalizeIdle
    /\ DocumentsIdle
    /\ ParserIdle

\* data_generation.py 329-365: the document workflow validates the
\* generated data against the document's schema
DocumentWorkflowValidates ==
    /\ pc = "start"
    /\ Truthy(secondary)                                    \* if schema:
    /\ schema' = secondary
    /\ normalized' = _normalize_schema(secondary)
    /\ result' = validate_against_schema(data, secondary, JSONSCHEMA_AVAILABLE)
    /\ calls' = calls \o ValidationCalls(secondary)
    /\ pc' = "validated"
    /\ UNCHANGED <<renormalized, mergeVars, data, JSONSCHEMA_AVAILABLE,
                   docVars, parserVars>>

\* template_workflow_processor.py 115-134 (one template): step 3 merges the
\* document's schema into the template's; an exception ends the workflow
\* with success False (170-178)
TemplateWorkflowMerges ==
    /\ pc = "start"
    /\ IF Truthy(secondary)                                 \* if document_schema:
       THEN /\ merged' = merge_schemas(primary, secondary)
            /\ calls' = Append(calls, Call("merge_schemas", secondary, None))
       ELSE /\ merged' = Returned(primary)
            /\ UNCHANGED calls
    /\ pc' = IF merged'.raised THEN "failed" ELSE "template_done"
    /\ UNCHANGED <<primary, secondary, normVars, validateVars, docVars, parserVars>>

\* data_generation.py 225-237: the generated data is validated against the
\* final schema of the template workflow
TemplateResultValidated ==
    /\ pc = "template_done"
    /\ Truthy(merged.value)                                 \* if schema:
    /\ schema' = merged.value
    /\ normalized' = _normalize_schema(merged.value)
    /\ result' = validate_against_schema(data, merged.value, JSONSCHEMA_AVAILABLE)
    /\ calls' = IF calls = <<>> THEN calls
                ELSE calls \o ValidationCalls(merged.value)
    /\ pc' = "validated"
    /\ UNCHANGED <<renormalized, mergeVars, data, JSONSCHEMA_AVAILABLE,
                   docVars, parserVars>>

NextGeneration ==
    DocumentWorkflowValidates \/ TemplateWorkflowMerges \/ TemplateResultValidated

SpecGeneration == InitGeneration /\ [][NextGeneration]_vars

(***************************************************************************)
(* C16: whenever a schema that comes from a document reaches validation    *)
(* (_validate_item) or merge_schemas, it is the output of an earlier call  *)
(* of _normalize_schema.                                                   *)
(***************************************************************************)
C16_Normalized(k) ==
    \E j \in 1..(k - 1) :
        calls[j].op = "_normalize_schema" /\ calls[j].output = calls[k].schema

C16_ValidationNormalizedFirst ==
    \A k \in DOMAIN calls : calls[k].op = "_validate_item" => C16_Normalized(k)

\* the unnormalized document schema makes merge_schemas raise (line 80:
\* set(True) when the document's `required` is a boolean)
C16_MergeRaised == pc = "failed" /\ calls # <<>>

(***************************************************************************)
(* C12: for every normalized object schema and every data object the       *)
(* jsonschema path and the fallback path of _validate_item agree on        *)
(* validity, neither dropping a missing required field, a type mismatch or *)
(* a constraint violation that the other reports (booleans against         *)
(* integer/number, properties without a type, nested objects and array     *)
(* items included).                                                        *)
(***************************************************************************)
C12_Applies ==
    /\ pc = "validated"
    /\ data.t = "dict"
    /\ normalized.isDict /\ normalized.type = "object"

C12_Library == _validate_item(data, normalized, "root", TRUE).value

C12_Fallback == _validate_item(data, normalized, "root", FALSE).value

C12_EnginesAgree == C12_Applies => C12_Library.valid = C12_Fallback.valid

\* the three disagreements the claim names
C12_NestedDropped ==
    /\ C12_Applies
    /\ "p" \in DOMAIN data.fields /\ "p" \in DOMAIN normalized.props
    /\ ~C12_Library.valid /\ C12_Fallback.valid

C12_BooleanAccepted ==
    /\ C12_Applies
    /\ "n" \in DOMAIN data.fields /\ data.fields["n"].t = "bool"
    /\ "n" \in DOMAIN normalized.props
    /\ normalized.props["n"].type \in {"integer", "number"}
    /\ ~C12_Library.valid /\ C12_Fallback.valid

C12_UntypedDropped ==
    /\ C12_Applies
    /\ "n" \in DOMAIN data.fields /\ "n" \in DOMAIN normalized.props
    /\ normalized.props["n"].type = ""
    /\ ~C12_Library.valid /\ C12_Fallback.valid

(***************************************************************************)
(* json_parser_service.py: JsonParserService.  A JSON value is the value   *)
(* json.loads returns (the data values above); str values are inspected    *)
(* character by character.                                                 *)
(***************************************************************************)
\* the limit taken one too small
DepthOneLess == 10 - 1

MAX_DEPTH == 10

ContainsStr(s, sub) ==
    \E i \in 1..(Len(s) - Len(sub) + 1) : SubSeq(s, i, i + Len(sub) - 1) = sub

\* \d{4}-\d{2}-\d{2} at the start of s
DatePrefix(s) ==
    /\ Len(s) >= 10
    /\ \A i \in {1, 2, 3, 4, 6, 7, 9, 10} : IsDigit(Char(s, i))
    /\ Char(s, 5) = "-" /\ Char(s, 8) = "-"

\* DATE_PATTERN.match(value), line 16: $ matches at the end of the string
\* and before a newline that ends the string
DATE_PATTERN(s) ==
    /\ DatePrefix(s)
    /\ Len(s) = 10 \/ (Len(s) = 11 /\ Char(s, 11) = "\n")

\* DATETIME_PATTERN.match(value), line 17: anchored at the start only
DATETIME_PATTERN(s) ==
    /\ DatePrefix(s)
    /\ Len(s) >= 19
    /\ Char(s, 11) \in {"T", " "}
    /\ \A i \in {12, 13, 15, 16, 18, 19} : IsDigit(Char(s, i))
    /\ Char(s, 14) = ":" /\ Char(s, 17) = ":"

\* the isinstance chain with int tested before bool
infer_int_before_bool(value) ==
    CASE value.t = "null" -> "string"
      [] value.t \in {"int", "bool"} -> "integer"
      [] value.t = "float" -> "number"
      [] value.t = "str" ->
            IF DATE_PATTERN(value.str) THEN "date"
            ELSE IF DATETIME_PATTERN(value.str) THEN "datetime"
            ELSE "string"
      [] value.t = "list" -> "array"
      [] value.t = "dict" -> "object"
      [] OTHER -> "string"

\* 24-55
infer_field_type(value) ==
    CASE value.t = "null" -> "string"
      [] value.t = "bool" -> "boolean"
      [] value.t = "int" -> "integer"
      [] value.t = "float" -> "number"
      [] value.t = "str" ->
            IF DATE_PATTERN(value.str) THEN "date"
            ELSE IF DATETIME_PATTERN(value.str) THEN "datetime"
            ELSE "string"
      [] value.t = "list" -> "array"
      [] value.t = "dict" -> "object"
      [] OTHER -> "string"

LowerChar(c) ==
    IF \E i \in 1..26 : Char(UpperCase, i) = c
    THEN Char(LowerCase, CHOOSE i \in 1..26 : Char(UpperCase, i) = c)
    ELSE c

\* name.lower()
RECURSIVE lower(_)
lower(s) == IF s = "" THEN "" ELSE LowerChar(Char(s, 1)) \o lower(SubSeq(s, 2, Len(s)))

\* replace('_', ' ').replace('-', ' ')
RECURSIVE Spaced(_)
Spaced(s) ==
    IF s = "" THEN ""
    ELSE (IF Char(s, 1) \in {"_", "-"} THEN " " ELSE Char(s, 1))
         \o Spaced(SubSeq(s, 2, Len(s)))

\* 72-85, in the order of the dict; the labels are written as JSON escapes
Mappings ==
    <<<<"name", "\\u540d\\u79f0">>, <<"id", "ID">>, <<"age", "\\u5e74\\u9f84">>,
      <<"email", "\\u90ae\\u7bb1">>, <<"phone", "\\u7535\\u8bdd">>,
      <<"address", "\\u5730\\u5740">>, <<"city", "\\u57ce\\u5e02">>,
      <<"country", "\\u56fd\\u5bb6">>, <<"date", "\\u65e5\\u671f">>,
      <<"time", "\\u65f6\\u95f4">>, <<"created", "\\u521b\\u5efa\\u65f6\\u95f4">>,
      <<"updated", "\\u66f4\\u65b0\\u65f6\\u95f4">>>>

\* 58-92
generate_field_description(field_name) ==
    LET name == Spaced(field_name)
        hits == {i \in DOMAIN Mappings : ContainsStr(lower(name), Mappings[i][1])}
    IN  IF hits = {} THEN name
        ELSE Mappings[CHOOSE i \in hits : \A j \in hits : i <= j][2]

(***************************************************************************)
(* A number among the constraints: quarters / 4, an int or a float.        *)
(***************************************************************************)
PyNum(is_float, quarters) == [float |-> is_float, quarters |-> quarters]

PyInt(n) == PyNum(FALSE, 4 * n)

Quarters(value) == 4 * value.num + (IF value.half THEN 2 ELSE 0)

NoConstraints == [cons |-> NoProps, pattern |-> <<>>]

\* 95-128
infer_constraints(field_name, value, field_type) ==
    IF field_type = "string" /\ value.t = "str" THEN
        [cons |-> IF Len(value.str) > 0
                  THEN Two("minLength", PyInt(1), "maxLength", PyInt(Len(value.str) * 2))
                  ELSE NoProps,
         pattern |-> IF ContainsStr(value.str, "@") /\ ContainsStr(value.str, ".")
                     THEN <<EmailPattern>> ELSE <<>>]
    ELSE IF field_type \in {"integer", "number"} /\ value.t \in {"int", "bool", "float"} THEN
        LET q == Quarters(value)
            f == value.t = "float"
        IN  [NoConstraints EXCEPT !.cons =
                Two("minimum", IF q > 0 THEN PyNum(TRUE, q \div 2) ELSE PyNum(f, q - 40),
                    "maximum", IF q > 0 THEN PyNum(f, q * 2) ELSE PyNum(f, q + 40))]
    ELSE IF field_type = "array" /\ value.t = "list" THEN
        [NoConstraints EXCEPT !.cons =
            Two("minItems", PyInt(0),
                "maxItems", IF Len(value.elems) > 0 THEN PyInt(Len(value.elems) * 2)
                            ELSE PyInt(10))]
    ELSE NoConstraints

(***************************************************************************)
(* Python ints have no largest value and floats do: value * 0.5 (121)      *)
(* raises OverflowError for an int above sys.float_info.max.  The ints of  *)
(* the model above FloatMax stand for those.                               *)
(***************************************************************************)
FloatMax == 1000

HugeInt == FloatMax + 1

\* 119-121: infer_constraints raises
OverflowError(value, field_type) ==
    /\ field_type \in {"integer", "number"}
    /\ value.t = "int" /\ value.num > 0
    /\ value.num > FloatMax

\* 130-200: an exception of infer_constraints leaves _extract_fields
RECURSIVE _extract_fields_raises(_, _)
_extract_fields_raises(obj, depth) ==
    IF depth > MAX_DEPTH THEN FALSE
    ELSE IF obj.t = "dict" THEN
        \E key \in DOMAIN obj.fields :
            LET value == obj.fields[key]
                field_type == infer_field_type(value)
            IN  \/ OverflowError(value, field_type)
                \/ field_type = "object" /\ _extract_fields_raises(value, depth + 1)
                \/ /\ field_type = "array" /\ Len(value.elems) > 0
                   /\ infer_field_type(value.elems[1]) = "object"
                   /\ _extract_fields_raises(value.elems[1], depth + 1)
    ELSE IF obj.t = "list" /\ Len(obj.elems) > 0 THEN
        /\ infer_field_type(obj.elems[1]) = "object"
        /\ _extract_fields_raises(obj.elems[1], depth + 1)
    ELSE FALSE

\* 130-200; the keys of a dict are taken in one fixed order
RECURSIVE _extract_fields(_, _, _)
_extract_fields(obj, prefix, depth) ==
    IF depth > MAX_DEPTH THEN <<>>
    ELSE IF obj.t = "dict" THEN
        LET keys == SetToSeq(DOMAIN obj.fields)
        IN  [i \in 1..Len(keys) |->
                LET key == keys[i]
                    value == obj.fields[key]
                    field_path == IF prefix # "" THEN prefix \o "." \o key ELSE key
                    field_type == infer_field_type(value)
                IN  [name |-> key,
                     path |-> field_path,
                     type |-> field_type,
                     description |-> generate_field_description(key),
                     required |-> FALSE,
                     constraints |-> infer_constraints(key, value, field_type),
                     properties |->
                        IF field_type = "object"
                        THEN _extract_fields(value, field_path, depth + 1)
                        ELSE <<>>,
                     items |->
                        IF field_type = "array" /\ Len(value.elems) > 0
                        THEN LET item_type == infer_field_type(value.elems[1])
                             IN  <<[type |-> item_type,
                                    properties |->
                                       IF item_type = "object"
                                       THEN _extract_fields(value.elems[1],
                                                            field_path \o "[]", depth + 1)
                                       ELSE <<>>]>>
                        ELSE <<>>]]
    ELSE IF obj.t = "list" /\ Len(obj.elems) > 0 THEN
        IF infer_field_type(obj.elems[1]) = "object"
        THEN _extract_fields(obj.elems[1], prefix, depth + 1)
        ELSE <<>>
    ELSE <<>>

\* 225: the fields whose path has no dot (every definition of
\* _extract_fields carries a path)
TopLevel(field_definitions_) ==
    {i \in DOMAIN field_definitions_ : ~ContainsStr(field_definitions_[i].path, ".")}

\* every included field is taken as required
RequiredNamesAll(field_definitions_) ==
    {field_definitions_[i].name : i \in TopLevel(field_definitions_)}

\* 268-270: schema["required"].append(field_name) for the fields marked required
RequiredNames(field_definitions_) ==
    {field_definitions_[i].name :
        i \in {j \in TopLevel(field_definitions_) : field_definitions_[j].required}}

\* 202-272; with several definitions of one name the last one's schema stays (266)
RECURSIVE _build_schema(_, _)
_build_schema(field_definitions_, root_path) ==
    LET top == TopLevel(field_definitions_)
        Last(name) == CHOOSE i \in top :
                          /\ field_definitions_[i].name = name
                          /\ \A j \in top : field_definitions_[j].name = name => j <= i
        Attach(s, nested_schema) ==                          \* 239-248, 255-264
            [s EXCEPT !.propsKind = "dict",
                      !.props = nested_schema.props,
                      !.required = IF nested_schema.required.names # {}
                                   THEN nested_schema.required ELSE ReqAbsent]
        FieldSchema(field) ==
            LET field_schema ==                              \* 227-234
                    [Typed(field.type) EXCEPT !.desc = <<field.description>>,
                                              !.cons = field.constraints.cons,
                                              !.pattern = field.constraints.pattern]
            IN  IF field.type = "object" /\ field.properties # <<>>
                THEN Attach(field_schema, _build_schema(field.properties, field.path))
                ELSE IF field.type = "array" /\ field.items # <<>>
                THEN LET items == field.items[1]
                     IN  [field_schema EXCEPT !.items =
                            <<IF items.type = "object" /\ items.properties # <<>>
                              THEN Attach(Typed("object"),
                                          _build_schema(items.properties, field.path))
                              ELSE Typed(items.type)>>]
                ELSE field_schema
    IN  [Typed("object") EXCEPT
            !.propsKind = "dict",
            !.props = [name \in {field_definitions_[i].name : i \in top} |->
                          FieldSchema(field_definitions_[Last(name)])],
            !.required = ReqList(RequiredNames(field_definitions_))]

(***************************************************************************)
(* The JSON values handed to the parser.                                   *)
(***************************************************************************)
MaxNesting == 3      \* deepest nesting of the enumerated JSON values

ParserStrings ==
    {"", "ab", "userName", "a@b.c", "a@b.cd", "2024-01-01", "2024-01-01\n", "2024-01-01\n\n",
     "2024-01-01x", "x2024-01-01", "2024-1-1", "2024/01/01",
     "2024-01-01T10:00:00", "2024-01-01 10:00:00", "2024-01-01 10:00:00x",
     "2024-01-01t10:00:00", "2024-01-01T10:00"}

ParserScalars ==
    {NullValue, BoolValue(TRUE), BoolValue(FALSE),
     IntValue(3), IntValue(0), IntValue(0 - 4),
     FloatValue(3, FALSE), FloatValue(3, TRUE), FloatValue(0 - 3, TRUE)}
    \cup {StrValue(s) : s \in ParserStrings}

ParserLeaves == {NullValue, IntValue(3), FloatValue(3, TRUE), StrValue("ab")}

ParserKeys == {"a", "user_id", "a.b"}

RECURSIVE NestedValues(_)
NestedValues(depth) ==
    IF depth = 0 THEN ParserLeaves
    ELSE LET inner == NestedValues(depth - 1)
         IN  inner
             \cup {DictValue(NoProps), ListValue(<<>>)}
             \cup {DictValue(One(k, v)) : k \in ParserKeys, v \in inner}
             \cup {ListValue(<<v>>) : v \in inner}

\* a chain of dicts deeper than MAX_DEPTH
RECURSIVE Chain(_)
Chain(depth) == IF depth = 0 THEN IntValue(3) ELSE DictValue(One("a", Chain(depth - 1)))

JsonInputs ==
    ParserScalars
    \cup NestedValues(MaxNesting)
    \cup {DictValue(Two("a", v, "b", w)) : v, w \in NestedValues(1)}
    \cup {DictValue(One("a", v)) : v \in ParserScalars}
    \cup {ListValue(<<IntValue(3), DictValue(One("a", IntValue(3)))>>),
          ListValue(<<Chain(MAX_DEPTH + 2)>>),
          DictValue(One("a", ListValue(<<Chain(MAX_DEPTH + 2)>>))),
          DictValue(One("a", IntValue(HugeInt))),
          DictValue(One("a", IntValue(0 - HugeInt))),
          DictValue(One("a", ListValue(<<DictValue(One("b", IntValue(HugeInt)))>>))),
          Chain(MAX_DEPTH + 2), BadJsonText}

InitParser ==
    /\ pc = "start"
    /\ json_value \in JsonInputs
    /\ inferred_type = ""
    /\ field_definitions = <<>>
    /\ built_schema = Returned(EmptyDict)
    /\ NormalizeIdle
    /\ MergeIdle
    /\ ValidateIdle
    /\ DocumentsIdle
    /\ FlowIdle

\* infer_field_type applied to a JSON value
InferFieldType ==
    /\ pc = "start"
    /\ json_value # BadJsonText
    /\ inferred_type' = infer_field_type(json_value)
    /\ pc' = "inferred"
    /\ UNCHANGED <<json_value, field_definitions, built_schema,
                   normVars, mergeVars, validateVars, docVars, flowVars>>

\* parse_json_to_schema, 274-300: json.loads, _extract_fields, _build_schema;
\* text that json.loads rejects and an exception of _extract_fields end in
\* ValueError
ParseJsonToSchema ==
    /\ pc = "start"
    /\ IF json_value = BadJsonText \/ _extract_fields_raises(json_value, 0)
       THEN /\ built_schema' = Raised
            /\ UNCHANGED field_definitions
       ELSE /\ field_definitions' = _extract_fields(json_value, "", 0)
            /\ built_schema' = Returned(_build_schema(field_definitions', ""))
    /\ pc' = "built"
    /\ UNCHANGED <<json_value, inferred_type,
                   normVars, mergeVars, validateVars, docVars, flowVars>>

NextParser == InferFieldType \/ ParseJsonToSchema

SpecParser == InitParser /\ [][NextParser]_vars

(***************************************************************************)
(* C17 as stated: infer_field_type gives string for null, boolean for a    *)
(* boolean, integer for an integral number, number for a fractional        *)
(* number, date for a string of the form YYYY-MM-DD, datetime for a string *)
(* starting with YYYY-MM-DD, T or space, HH:MM:SS, string for any other    *)
(* string, array for a list and object for a map.                          *)
(***************************************************************************)
C17_Digits(s, positions) ==
    \A i \in positions : \E d \in 0..9 : Char(s, i) = ToString(d)

C17_StartsWithDate(s) ==
    Len(s) >= 10 /\ C17_Digits(s, {1, 2, 3, 4, 6, 7, 9, 10})
    /\ SubSeq(s, 5, 5) = "-" /\ SubSeq(s, 8, 8) = "-"

C17_StartsWithDateTime(s) ==
    C17_StartsWithDate(s) /\ Len(s) >= 19
    /\ (SubSeq(s, 11, 11) = "T" \/ SubSeq(s, 11, 11) = " ")
    /\ C17_Digits(s, {12, 13, 15, 16, 18, 19})
    /\ SubSeq(s, 14, 14) = ":" /\ SubSeq(s, 17, 17) = ":"

C17_StringType(s, is_date) ==
    IF is_date THEN "date"
    ELSE IF C17_StartsWithDateTime(s) THEN "datetime"
    ELSE "string"

C17_Stated(value) ==
    IF value.t = "null" THEN "string"
    ELSE IF value.t = "bool" THEN "boolean"
    ELSE IF value.t \in {"int", "float"}
    THEN (IF value.half THEN "number" ELSE "integer")
    ELSE IF value.t = "str"
    THEN C17_StringType(value.str, C17_StartsWithDate(value.str) /\ Len(value.str) = 10)
    ELSE IF value.t = "list" THEN "array"
    ELSE "object"

C17_FirstMatch == pc = "inferred" => inferred_type = C17_Stated(json_value)

(***************************************************************************)
(* C17 as the code has it: the number cases go by the kind of the value,   *)
(* an int gives integer and a float gives number, a whole float such as    *)
(* 3.0 too; and a string is a date when it is YYYY-MM-DD, alone or         *)
(* followed by one newline that ends the string.  The other cases are as   *)
(* stated.                                                                 *)
(***************************************************************************)
C17_Amended(value) ==
    IF value.t = "null" THEN "string"
    ELSE IF value.t = "bool" THEN "boolean"
    ELSE IF value.t = "int" THEN "integer"
    ELSE IF value.t = "float" THEN "number"
    ELSE IF value.t = "str"
    THEN C17_StringType(value.str,
                        C17_StartsWithDate(value.str)
                        /\ value.str \in {SubSeq(value.str, 1, 10),
                                          SubSeq(value.str, 1, 10) \o "\n"})
    ELSE IF value.t = "list" THEN "array"
    ELSE "object"

C17_ByKindOfValue == pc = "inferred" => inferred_type = C17_Amended(json_value)

\* the cases in which the statement and the code part
C17_Witness ==
    /\ pc = "inferred"
    /\ json_value = FloatValue(3, FALSE)
    /\ inferred_type = "number"

C17_WitnessNewline ==
    /\ pc = "inferred"
    /\ json_value = StrValue("2024-01-01\n")
    /\ inferred_type = "date"

C17_WitnessBoolean ==
    /\ pc = "inferred"
    /\ json_value = BoolValue(TRUE)
    /\ inferred_type = "boolean"

(***************************************************************************)
(* C19: for every field definition of type object with nested properties,  *)
(* _build_schema attaches to the field's property schema a properties map  *)
(* with exactly one entry per nested field definition (recursively); and   *)
(* for every field of type array whose items are objects with nested       *)
(* properties, it attaches such a map under items.                         *)
(***************************************************************************)
C19_Names(defs) == {defs[i].name : i \in DOMAIN defs}

RECURSIVE C19_Attached(_, _)
C19_Attached(defs, s) ==
    \A i \in DOMAIN defs :
        LET f == defs[i]
        IN  f.name \in DOMAIN s.props =>
              /\ (f.type = "object" /\ f.properties # <<>>) =>
                    /\ s.props[f.name].propsKind = "dict"
                    /\ DOMAIN s.props[f.name].props = C19_Names(f.properties)
                    /\ C19_Attached(f.properties, s.props[f.name])
              /\ (f.type = "array" /\ f.items # <<>>
                    /\ f.items[1].type = "object" /\ f.items[1].properties # <<>>) =>
                    /\ s.props[f.name].items # <<>>
                    /\ s.props[f.name].items[1].propsKind = "dict"
                    /\ DOMAIN s.props[f.name].items[1].props
                          = C19_Names(f.items[1].properties)
                    /\ C19_Attached(f.items[1].properties, s.props[f.name].items[1])

C19_NestedAttached ==
    (pc = "built" /\ ~built_schema.raised) =>
        C19_Attached(field_definitions, built_schema.value)

\* parse_json_to_schema('{"a": {"a": 3}}'): property a comes out with an
\* empty properties map
C19_NestedEmpty ==
    /\ pc = "built"
    /\ json_value = DictValue(One("a", DictValue(One("a", IntValue(3)))))
    /\ built_schema.value.props["a"].propsKind = "dict"
    /\ built_schema.value.props["a"].props = NoProps

(***************************************************************************)
(* C20: in every schema _build_schema produces, at the top level and at    *)
(* every nested object or array-items level, a `required` value is never a *)
(* boolean and always an array (the top level always has one), and a       *)
(* field's name is in the `required` array of its parent level if and only *)
(* if the field definition's own required flag is true.                    *)
(***************************************************************************)
RECURSIVE C20_Level(_, _)
C20_Level(defs, s) ==
    /\ s.required.kind \in {"list", "absent"}
    /\ \A i \in DOMAIN defs :
          LET f == defs[i]
          IN  /\ (f.name \in s.required.names) <=> f.required
              /\ (f.name \in DOMAIN s.props /\ f.properties # <<>>) =>
                    C20_Level(f.properties, s.props[f.name])
              /\ (f.name \in DOMAIN s.props /\ f.items # <<>>
                    /\ s.props[f.name].items # <<>>) =>
                    C20_Level(f.items[1].properties, s.props[f.name].items[1])

C18_Promoted(s) ==
    IF s.propsKind # "dict" THEN {}
    ELSE UNION {PromotedFromProp(n, _normalize_schema(s.props[n])) : n \in DOMAIN s.props}

C18_Stated(s) ==
    IF s.propsKind # "dict" THEN ReqList(C18_Promoted(s))
    ELSE IF s.required.kind = "bool" /\ s.required.flag
    THEN ReqList(DOMAIN s.props \cup C18_Promoted(s))
    ELSE IF s.required.kind = "list"
    THEN ReqList(s.required.names \cup C18_Promoted(s))
    ELSE ReqList(C18_Promoted(s))

C18_Applies ==
    /\ pc = "normalized"
    /\ schema.isDict /\ ~IsWrapper(schema)
    /\ schema.required.kind # "other"

C18_RequiredPerCase == C18_Applies => normalized.required = C18_Stated(schema)

\* the two cases in which the code leaves `required` as it came
C18_AbsentStaysAbsent ==
    /\ C18_Applies
    /\ schema.propsKind = "dict" /\ schema.required.kind = "absent"
    /\ C18_Promoted(schema) = {}
    /\ normalized.required = ReqAbsent

C18_ListKeptWithoutProperties ==
    /\ C18_Applies
    /\ schema.propsKind # "dict" /\ schema.required.kind = "list"
    /\ schema.required.names # {}
    /\ normalized.required = schema.required

\* the cases of C18 the code keeps: a boolean or an array on a level with
\* properties
C18_BooleanAndArrayCases ==
    (C18_Applies /\ schema.propsKind = "dict" /\ schema.required.kind \in {"bool", "list"})
        => normalized.required = C18_Stated(schema)

(***************************************************************************)
(* C21 as stated: in every field definition _extract_fields returns,       *)
(* `properties` is present if and only if the type is object and the       *)
(* source value was a non-empty map, and `items` is present if and only if *)
(* the type is array and the source value was a non-empty list.            *)
(* C21_Fields walks the definitions along the values they were made from;  *)
(* with `truncates` the first equivalence also asks that the nested level  *)
(* is within the depth limit of 10.                                        *)
(***************************************************************************)
RECURSIVE C21_Fields(_, _, _, _)
C21_Fields(defs, obj, depth, truncates) ==
    \A i \in DOMAIN defs :
        LET f == defs[i]
            v == obj.fields[f.name]
        IN  /\ (f.properties # <<>>) <=>
                  /\ f.type = "object"
                  /\ v.t = "dict" /\ DOMAIN v.fields # {}
                  /\ truncates => depth + 1 <= 10
            /\ (f.items # <<>>) <=>
                  (f.type = "array" /\ v.t = "list" /\ Len(v.elems) > 0)
            /\ f.properties # <<>> => C21_Fields(f.properties, v, depth + 1, truncates)
            /\ (f.items # <<>> /\ f.items[1].properties # <<>>) =>
                  C21_Fields(f.items[1].properties, v.elems[1], depth + 1, truncates)

C21_Extracted == pc = "built" /\ ~built_schema.raised

C21_Root(truncates) ==
    IF json_value.t = "dict" THEN C21_Fields(field_definitions, json_value, 0, truncates)
    ELSE IF field_definitions # <<>>
    THEN C21_Fields(field_definitions, json_value.elems[1], 1, truncates)
    ELSE TRUE

C21_PresentIffNonEmpty == C21_Extracted => C21_Root(FALSE)

(***************************************************************************)
(* C21 as the code has it: `properties` is present if and only if the type *)
(* is object, the source value was a non-empty map and the nested level is *)
(* within the depth limit (the field's depth + 1 <= 10); `items` as stated. *)
(***************************************************************************)
C21_PresentIffNonEmptyWithinDepth == C21_Extracted => C21_Root(TRUE)

RECURSIVE C21_Levels(_)
C21_Levels(defs) ==
    IF defs = <<>> THEN 0
    ELSE 1 + C21_Levels(defs[1].properties)

\* the chain of dicts deeper than the limit: eleven levels of fields, the
\* last an object field of a non-empty map without `properties`
C21_Witness ==
    /\ C21_Extracted
    /\ json_value = Chain(MAX_DEPTH + 2)
    /\ C21_Levels(field_definitions) = 11

(***************************************************************************)
(* C22: for a JSON value of any nesting depth _extract_fields terminates   *)
(* without raising and emits no field at a recursion depth above 10: an    *)
(* object field, or an array field with object elements, at depth d gets   *)
(* nested properties only if d + 1 <= 10; an array at the root takes one   *)
(* level of depth when its first element is entered.                       *)
(***************************************************************************)
RECURSIVE C22_Within(_, _)
C22_Within(defs, depth) ==
    \A i \in DOMAIN defs :
        /\ depth <= 10
        /\ C22_Within(defs[i].properties, depth + 1)
        /\ defs[i].items # <<>> => C22_Within(defs[i].items[1].properties, depth + 1)

C22_RootDepth == IF json_value.t = "list" THEN 1 ELSE 0

C22_NoRaiseAndDepthBounded ==
    (pc = "built" /\ json_value # BadJsonText) =>
        /\ ~built_schema.raised
        /\ C22_Within(field_definitions, C22_RootDepth)

\* the part of C22 about the depth, which the code keeps
C22_DepthBounded == C21_Extracted => C22_Within(field_definitions, C22_RootDepth)

\* {"a": n} with an int n above the largest float: OverflowError
C22_Overflow ==
    /\ pc = "built"
    /\ json_value = DictValue(One("a", IntValue(HugeInt)))
    /\ built_schema.raised

\* the root array takes one level: ten levels of fields, not eleven
C22_RootArrayTakesOneLevel ==
    /\ C21_Extracted
    /\ json_value = ListValue(<<Chain(MAX_DEPTH + 2)>>)
    /\ C21_Levels(field_definitions) = 10

(***************************************************************************)
(* C23: for a property name present on both sides of merge_schemas the     *)
(* merged `pattern` is the primary's when the primary has one and          *)
(* otherwise the secondary's, and the merged `enum` likewise (the two enum *)
(* sets are never combined).  Stated for both places a property carries    *)
(* them: as keys of its own and in its `constraints` dictionary.           *)
(***************************************************************************)
C23_Prefer(primary_value, secondary_value) ==
    IF primary_value # <<>> THEN primary_value ELSE secondary_value

C23_OnBothSides ==
    IF pc = "merged" /\ ~merged.raised /\ Truthy(primary) /\ Truthy(secondary)
    THEN {n \in DOMAIN GetProperties(primary) \cap DOMAIN GetProperties(secondary) :
             Truthy(primary.props[n]) /\ Truthy(secondary.props[n])}
    ELSE {}

C23_PatternEnumPrimaryElseSecondary ==
    \A n \in C23_OnBothSides :
        LET p == primary.props[n]
            s == secondary.props[n]
            m == merged.value.props[n]
        IN  /\ m.pattern = C23_Prefer(p.pattern, s.pattern)
            /\ m.enum = C23_Prefer(p.enum, s.enum)
            /\ GetConstraints(m).pattern
                  = C23_Prefer(GetConstraints(p).pattern, GetConstraints(s).pattern)
            /\ GetConstraints(m).enum
                  = C23_Prefer(GetConstraints(p).enum, GetConstraints(s).enum)

\* the part of C23 the code keeps: `pattern` inside `constraints`, and no
\* enum is ever a combination of the two
C23_ConstraintsPattern ==
    \A n \in C23_OnBothSides :
        LET p == primary.props[n]
            s == secondary.props[n]
            m == merged.value.props[n]
        IN  /\ GetConstraints(m).pattern
                  = C23_Prefer(GetConstraints(p).pattern, GetConstraints(s).pattern)
            /\ m.enum = p.enum
            /\ GetConstraints(m).enum = GetConstraints(p).enum

\* the secondary's enum and pattern are dropped
C23_SecondaryDropped ==
    \E n \in C23_OnBothSides :
        /\ primary.props[n].enum = <<>> /\ primary.props[n].pattern = <<>>
        /\ secondary.props[n].enum # <<>> /\ secondary.props[n].pattern # <<>>
        /\ merged.value.props[n].enum = <<>> /\ merged.value.props[n].pattern = <<>>

(***************************************************************************)
(* C24: for a property present on both sides of merge_schemas, if it is    *)
(* object-typed its merged `properties` and `required` are those of        *)
(* merging the two sides' nested properties / required as a sub-schema by  *)
(* the same rules (union of names, union of required, primary priority);   *)
(* if it is array-typed its `items` are merged in that way only when both  *)
(* sides declare object-typed items, and otherwise the merged `items` is   *)
(* the primary's if the primary has one, else the secondary's.             *)
(***************************************************************************)
\* m is the merge of the levels p and s by the rules of merge_schemas
C24_SubSchemaMerged(m, p, s) ==
    LET pp == GetProperties(p)
        sp == GetProperties(s)
    IN  /\ DOMAIN GetProperties(m) = DOMAIN pp \cup DOMAIN sp
        /\ m.required.names = p.required.names \cup s.required.names
        /\ \A u \in DOMAIN pp \ DOMAIN sp : m.props[u] = pp[u]
        /\ \A u \in DOMAIN sp \ DOMAIN pp : m.props[u] = sp[u]
        /\ \A u \in DOMAIN pp \cap DOMAIN sp : m.props[u].type = pp[u].type

C24_BothObjectItems(p, s) ==
    /\ p.items # <<>> /\ s.items # <<>>
    /\ p.items[1].type = "object" /\ s.items[1].type = "object"

C24_FieldMerged(m, p, s) ==
    /\ p.type = "object" => C24_SubSchemaMerged(m, p, s)
    /\ p.type = "array" =>
          IF C24_BothObjectItems(p, s)
          THEN m.items # <<>> /\ C24_SubSchemaMerged(m.items[1], p.items[1], s.items[1])
          ELSE m.items = (IF p.items # <<>> THEN p.items ELSE s.items)

C24_Pairs ==
    IF pc = "merged" /\ Truthy(primary) /\ Truthy(secondary)
    THEN {n \in DOMAIN GetProperties(primary) \cap DOMAIN GetProperties(secondary) :
             Truthy(primary.props[n]) /\ Truthy(secondary.props[n])}
    ELSE {}

C24_NestedMergedRecursively ==
    ~merged.raised =>
        \A n \in C24_Pairs :
            C24_FieldMerged(merged.value.props[n], primary.props[n], secondary.props[n])

\* C24 where no nested property has the empty schema {}, which merge_schemas
\* takes for a missing one (C6)
C24_NoEmptyNested(f) ==
    /\ \A u \in DOMAIN GetProperties(f) : Truthy(f.props[u])
    /\ f.items # <<>> => \A u \in DOMAIN GetProperties(f.items[1]) : Truthy(f.items[1].props[u])

C24_NestedMergedUnlessEmpty ==
    ~merged.raised =>
        \A n \in C24_Pairs :
            (C24_NoEmptyNested(primary.props[n]) /\ C24_NoEmptyNested(secondary.props[n])) =>
                C24_FieldMerged(merged.value.props[n], primary.props[n], secondary.props[n])

\* nested u is {} on the primary side and typed on the secondary side: the
\* merged u is the secondary's
C24_SecondaryWins ==
    /\ ~merged.raised
    /\ \E n \in C24_Pairs :
          /\ primary.props[n].type = "object"
          /\ "u" \in DOMAIN GetProperties(primary.props[n])
          /\ "u" \in DOMAIN GetProperties(secondary.props[n])
          /\ primary.props[n].props["u"] = EmptyDict
          /\ merged.value.props[n].props["u"] = secondary.props[n].props["u"]
          /\ secondary.props[n].props["u"].type # ""

\* nested u is {} on the primary side and missing on the secondary side:
\* merge_schemas raises
C24_NestedRaises ==
    /\ merged.raised
    /\ \E n \in C24_Pairs :
          /\ primary.props[n].type = "object"
          /\ "u" \in DOMAIN GetProperties(primary.props[n])
          /\ primary.props[n].props["u"] = EmptyDict
          /\ "u" \notin DOMAIN GetProperties(secondary.props[n])

(***************************************************************************)
(* C25: in every result of validate_against_schema each failed check       *)
(* contributes one entry to `errors` and one to `details`, so both lists   *)
(* have the same number of entries, on the fallback path as well as on     *)
(* the library-backed path.                                                *)
(***************************************************************************)
C25_DetailsMatchErrors ==
    pc = "validated" => Len(result.details) = Len(result.errors)

\* what the code keeps: on the library path every error that is a failed
\* check of the library has its detail, with the same path and check; the
\* errors without one are the caught exceptions
C25_Caught == {"Schema validation error", "Validation error", "Invalid JSON format"}

C25_LibraryDetailsMatchErrors ==
    (pc = "validated" /\ JSONSCHEMA_AVAILABLE) =>
        result.details = SelectSeq(result.errors, LAMBDA e : e.check \notin C25_Caught)

\* the fallback reports two failed checks and no detail
C25_FallbackNoDetails ==
    /\ pc = "validated"
    /\ ~JSONSCHEMA_AVAILABLE
    /\ Len(result.errors) >= 2
    /\ \A i \in DOMAIN result.errors : result.errors[i].check \notin C25_Caught
    /\ result.details = <<>>

\* the library path reports two failed checks and their two details
C25_LibraryTwoDetails ==
    /\ pc = "validated"
    /\ JSONSCHEMA_AVAILABLE
    /\ Len(result.errors) >= 2
    /\ Len(result.details) = Len(result.errors)

(***************************************************************************)
(* C26: the field list _merge_document_contexts aggregates from the        *)
(* schema-bearing documents, in input order, has exactly one entry per     *)
(* distinct field name; the entry's type is the first occurrence's; its    *)
(* `required` is true iff some occurrence marks it true; its               *)
(* minLength/minimum is the maximum, and its maxLength/maximum the         *)
(* minimum, over the occurrences that carry that constraint.               *)
(***************************************************************************)
C26_Occurrences ==
    ConcatAll([i \in DOMAIN documents |->
                 IF /\ ~documents[i].raises
                    /\ documents[i].document_type = "api"
                    /\ documents[i].document_context.context_type = "schema"
                 THEN documents[i].document_context.fields
                 ELSE <<>>])

C26_Aggregated ==
    /\ pc = "processed"
    /\ ~workflow_result.raised
    /\ workflow_result.value.document_context.api_context # <<>>

C26_Fields == workflow_result.value.document_context.api_context[1].fields

C26_Carried(name, key) ==
    {C26_Occurrences[k].constraints[1][key] :
        k \in {k \in DOMAIN C26_Occurrences :
                  /\ C26_Occurrences[k].name = name
                  /\ C26_Occurrences[k].constraints # <<>>
                  /\ key \in DOMAIN C26_Occurrences[k].constraints[1]}}

C26_Tightest(key, values) ==
    IF key \in {"minLength", "minimum"}
    THEN CHOOSE v \in values : \A w \in values : w <= v
    ELSE CHOOSE v \in values : \A w \in values : v <= w

C26_FirstOccurrence(name) ==
    C26_Occurrences[CHOOSE k \in DOMAIN C26_Occurrences :
                        /\ C26_Occurrences[k].name = name
                        /\ \A j \in 1..(k - 1) : C26_Occurrences[j].name # name]

C26_OneStrictestEntryPerName ==
    C26_Aggregated =>
        /\ \A k1, k2 \in DOMAIN C26_Fields :
              C26_Fields[k1].name = C26_Fields[k2].name => k1 = k2
        /\ {C26_Fields[k].name : k \in DOMAIN C26_Fields}
              = {C26_Occurrences[k].name : k \in DOMAIN C26_Occurrences}
        /\ \A k \in DOMAIN C26_Fields :
              LET entry == C26_Fields[k]
              IN  /\ entry.type = C26_FirstOccurrence(entry.name).type
                  /\ IsTrue(entry.required)
                        <=> \E j \in DOMAIN C26_Occurrences :
                               /\ C26_Occurrences[j].name = entry.name
                               /\ IsTrue(C26_Occurrences[j].required)
                  /\ \A key \in {"minLength", "maxLength", "minimum", "maximum"} :
                        LET values == C26_Carried(entry.name, key)
                        IN  IF values = {}
                            THEN \/ entry.constraints = <<>>
                                 \/ key \notin DOMAIN entry.constraints[1]
                            ELSE /\ entry.constraints # <<>>
                                 /\ key \in DOMAIN entry.constraints[1]
                                 /\ entry.constraints[1][key] = C26_Tightest(key, values)

\* three occurrences of one name: the first has no constraints and is not
\* required, a later one is required, and the bounds are tightened twice
C26_Witness ==
    /\ C26_Aggregated
    /\ \E k \in DOMAIN C26_Fields :
          /\ C26_Fields[k].name = "a"
          /\ C26_FirstOccurrence("a").constraints = <<>>
          /\ ~IsTrue(C26_FirstOccurrence("a").required)
          /\ IsTrue(C26_Fields[k].required)
          /\ C26_Fields[k].type = "string"
          /\ C26_Fields[k].constraints = <<Two("minimum", 7, "maximum", 8)>>

(***************************************************************************)
(* C27: the entity list _merge_document_contexts aggregates from the       *)
(* test-point-bearing documents, in input order, has exactly one entity    *)
(* per distinct name, whose shell is the first occurrence; each later      *)
(* occurrence appends, in source order, exactly those of its fields whose  *)
(* names are not already present in the entity, so no aggregated entity    *)
(* holds two fields with the same name.                                    *)
(***************************************************************************)
C27_Occurrences ==
    ConcatAll([i \in DOMAIN documents |->
                 IF /\ ~documents[i].raises
                    /\ documents[i].document_type = "requirement"
                    /\ documents[i].document_context.context_type = "test_points"
                 THEN documents[i].document_context.entities
                 ELSE <<>>])

C27_Aggregated ==
    /\ pc = "processed"
    /\ ~workflow_result.raised
    /\ workflow_result.value.document_context.requirement_context # <<>>

C27_Entities == workflow_result.value.document_context.requirement_context[1].entities

C27_Of(name) == SelectSeq(C27_Occurrences, LAMBDA e : e.name = name)

C27_FieldsOf(entity) == IF entity.fields = <<>> THEN <<>> ELSE entity.fields[1]

\* the fields of `new` not yet present, appended one by one
RECURSIVE C27_AppendNew(_, _)
C27_AppendNew(fields, new) ==
    IF new = <<>> THEN fields
    ELSE C27_AppendNew(IF \E j \in DOMAIN fields : fields[j] = Head(new)
                       THEN fields ELSE Append(fields, Head(new)),
                       Tail(new))

C27_Expected(name) ==
    C27_AppendNew(C27_FieldsOf(Head(C27_Of(name))),
                  ConcatAll([k \in DOMAIN Tail(C27_Of(name)) |->
                               C27_FieldsOf(Tail(C27_Of(name))[k])]))

C27_NoTwoAlike(fields) ==
    \A j1, j2 \in DOMAIN fields : fields[j1] = fields[j2] => j1 = j2

C27_OneEntityPerName ==
    C27_Aggregated =>
        /\ \A k1, k2 \in DOMAIN C27_Entities :
              C27_Entities[k1].name = C27_Entities[k2].name => k1 = k2
        /\ {C27_Entities[k].name : k \in DOMAIN C27_Entities}
              = {C27_Occurrences[k].name : k \in DOMAIN C27_Occurrences}

C27_EntitiesDeduplicated ==
    /\ C27_OneEntityPerName
    /\ C27_Aggregated =>
          \A k \in DOMAIN C27_Entities :
              /\ C27_FieldsOf(C27_Entities[k]) = C27_Expected(C27_Entities[k].name)
              /\ C27_NoTwoAlike(C27_FieldsOf(C27_Entities[k]))

\* what the code keeps: the claim for the entities whose first occurrence
\* has a `fields` list and whose later occurrences name no field twice
C27_Regular(name) ==
    /\ Head(C27_Of(name)).fields # <<>>
    /\ \A k \in DOMAIN C27_Of(name) : C27_NoTwoAlike(C27_FieldsOf(C27_Of(name)[k]))

C27_RegularEntitiesDeduplicated ==
    /\ C27_OneEntityPerName
    /\ C27_Aggregated =>
          \A k \in DOMAIN C27_Entities :
              C27_Regular(C27_Entities[k].name) =>
                 /\ C27_FieldsOf(C27_Entities[k]) = C27_Expected(C27_Entities[k].name)
                 /\ C27_NoTwoAlike(C27_FieldsOf(C27_Entities[k]))

\* a later occurrence names a new field twice: both are appended
C27_TwoAlike ==
    /\ C27_Aggregated
    /\ \E k \in DOMAIN C27_Entities :
          /\ C27_Entities[k].name = "E"
          /\ C27_FieldsOf(C27_Entities[k]) = <<"f1", "f2", "f3", "f3">>

\* the first occurrence has no `fields`: the later occurrence's are lost
C27_FieldsLost ==
    /\ C27_Aggregated
    /\ \E k \in DOMAIN C27_Entities :
          /\ C27_Entities[k].name = "F"
          /\ C27_Entities[k].fields = <<>>
          /\ C27_Expected("F") = <<"f1">>

\* a regular entity of two documents
C27_Appended ==
    /\ C27_Aggregated
    /\ \E k \in DOMAIN C27_Entities :
          /\ C27_Entities[k].name = "F"
          /\ C27_Regular("F")
          /\ Len(C27_Of("F")) = 2
          /\ C27_Entities[k].fields = <<<<"f1">>>>

(***************************************************************************)
(* C28: _merge_document_contexts is a pure transformation: after it        *)
(* returns, every per-document extraction result passed to it (each        *)
(* document's field definitions with their `constraints`, each entity with *)
(* its `fields` list) equals its value before the call, so aggregating the *)
(* same inputs a second time yields the same merged context.               *)
(***************************************************************************)
C28_Before ==
    [i \in DOMAIN documents |->
        _process_single_document_for_merge(document_ids_of(documents)[i], documents[i])]

C28_InputsUnchanged ==
    pc = "processed" => document_results = C28_Before

\* the second half of the claim holds all the same: the merge of the results
\* as the first merge left them is the merge of the results as they were
C28_SecondMergeSame ==
    pc = "processed" => MergedContextOf(document_results) = MergedContextOf(C28_Before)

\* what the code keeps: a result is as it was but for the `constraints` of
\* its fields and the `fields` of its entities
C28_Erased(results) ==
    [i \in DOMAIN results |->
       [results[i] EXCEPT
          !.value.document_context.fields = [j \in DOMAIN @ |-> [@[j] EXCEPT !.constraints = <<>>]],
          !.value.document_context.entities = [j \in DOMAIN @ |-> [@[j] EXCEPT !.fields = <<>>]]]]

C28_OnlyNestedWritten ==
    pc = "processed" => C28_Erased(document_results) = C28_Erased(C28_Before)

\* a document's first field `a` had maximum 9 and has maximum 8 afterwards
C28_ConstraintsWritten ==
    /\ pc = "processed"
    /\ \E i \in DOMAIN documents :
          /\ IsSchemaResult(document_results[i])
          /\ \E j \in DOMAIN ResultFields(document_results[i]) :
                /\ ResultFields(C28_Before[i])[j].constraints = <<Two("minimum", 7, "maximum", 9)>>
                /\ ResultFields(document_results[i])[j].constraints = <<Two("minimum", 7, "maximum", 8)>>

\* a document's first entity E had the field f1 and has f1, f2 afterwards
C28_FieldsAppended ==
    /\ pc = "processed"
    /\ \E i \in DOMAIN documents :
          /\ IsTestPointsResult(document_results[i])
          /\ \E j \in DOMAIN ResultEntities(document_results[i]) :
                /\ ResultEntities(C28_Before[i])[j].fields = <<<<"f1">>>>
                /\ Len(ResultEntities(document_results[i])[j].fields[1]) >= 2

(***************************************************************************)
(* C29: validate_against_schema reports a required-field-missing error     *)
(* only for a field that is absent from the data at the level where it is  *)
(* required: for an object schema whose nested object property declares    *)
(* its own `required` array, data in which every such nested required      *)
(* field is present yields no required-missing error.                      *)
(***************************************************************************)
C29_RequiredArray(s) == s.isDict /\ s.required.kind \in {"absent", "list"}

\* the nested object properties that declare required fields
C29_Declaring ==
    {n \in DOMAIN GetProperties(schema) :
        /\ schema.props[n].type = "object"
        /\ schema.props[n].required.names # {}}

C29_Schema ==
    /\ schema.isDict
    /\ schema.type = "object"
    /\ ~IsWrapper(schema)
    /\ C29_RequiredArray(schema)
    /\ \A n \in DOMAIN GetProperties(schema) : C29_RequiredArray(schema.props[n])

C29_AllPresent ==
    /\ data.t = "dict"
    /\ schema.required.names \subseteq DOMAIN data.fields
    /\ \A n \in C29_Declaring :
          /\ n \in DOMAIN data.fields
          /\ data.fields[n].t = "dict"
          /\ schema.props[n].required.names \subseteq DOMAIN data.fields[n].fields

C29_RequiredMissing ==
    \E i \in DOMAIN result.errors :
        result.errors[i].check \in {"Required field is missing", "required"}

C29_NoMissingWhenPresent ==
    (pc = "validated" /\ C29_Schema /\ C29_Declaring # {} /\ C29_AllPresent)
        => ~C29_RequiredMissing

\* what the code keeps: with no nested `required` array, a required-missing
\* error is reported only when a required field is absent
C29_TopLevelOnlyWhenAbsent ==
    (pc = "validated" /\ C29_Schema /\ C29_Declaring = {} /\ C29_AllPresent)
        => ~C29_RequiredMissing

\* p.x is present and reported missing, by the fallback and by the library
C29_PresentReportedFallback ==
    /\ pc = "validated" /\ C29_Schema /\ C29_Declaring = {"p"} /\ C29_AllPresent
    /\ ~JSONSCHEMA_AVAILABLE
    /\ result.errors = <<Error("root.p.x", "Required field is missing")>>

C29_PresentReportedLibrary ==
    /\ pc = "validated" /\ C29_Schema /\ C29_Declaring = {"p"} /\ C29_AllPresent
    /\ JSONSCHEMA_AVAILABLE
    /\ \E i \in DOMAIN result.errors : result.errors[i] = Error("root", "required")

\* the top-level case: n is required, present, and no error of the kind
C29_TopLevelPresent ==
    /\ pc = "validated" /\ C29_Schema /\ C29_Declaring = {} /\ C29_AllPresent
    /\ schema.required.names = {"n"}
    /\ ~C29_RequiredMissing

(***************************************************************************)
(* The round trip of an example: parse_json_to_schema, then                *)
(* validate_against_schema of the example against the inferred schema,     *)
(* without the jsonschema library.                                         *)
(*                                                                         *)
(* The inferred minimum and maximum are multiples of 1/4 (PyNum), while    *)
(* the validator above compares a number with a whole bound.  Both the     *)
(* example's numbers and the bounds are counted in quarters here, which    *)
(* changes no comparison of data_validator.py 431-438; the type checks     *)
(* (352-378) read the kind of a value, not its size.  The length bounds    *)
(* are whole numbers and stay as they are.                                 *)
(***************************************************************************)
RECURSIVE InQuarters(_)
InQuarters(value) ==
    [value EXCEPT
       !.num = IF value.t \in {"int", "float", "bool"} THEN Quarters(value) ELSE @,
       !.half = FALSE,
       !.elems = [i \in DOMAIN @ |-> InQuarters(@[i])],
       !.fields = [n \in DOMAIN @ |-> InQuarters(@[n])]]

RECURSIVE SchemaInQuarters(_)
SchemaInQuarters(s) ==
    [s EXCEPT
       !.cons = [k \in DOMAIN @ |->
                   IF k \in {"minimum", "maximum"} THEN @[k].quarters
                   ELSE @[k].quarters \div 4],
       !.props = [n \in DOMAIN @ |-> SchemaInQuarters(@[n])],
       !.items = [i \in DOMAIN @ |-> SchemaInQuarters(@[i])]]

ValidateExample ==
    /\ pc = "built"
    /\ ~built_schema.raised
    /\ result' = validate_against_schema(InQuarters(json_value),
                                         SchemaInQuarters(built_schema.value), FALSE)
    /\ pc' = "roundtrip"
    /\ UNCHANGED <<data, JSONSCHEMA_AVAILABLE, normVars, mergeVars, docVars, flowVars,
                   parserVars>>

NextRoundTrip == ParseJsonToSchema \/ ValidateExample

SpecRoundTrip == InitParser /\ [][NextRoundTrip]_vars

(***************************************************************************)
(* C30: for every JSON object example e (with null, boolean, integer,      *)
(* string, array and nested-object members), validating e against the      *)
(* schema parse_json_to_schema infers from e returns valid == true on the  *)
(* fallback validator: each inferred type accepts the value it was         *)
(* inferred from, and each inferred bound holds of that value.             *)
(***************************************************************************)
C30_Example == pc = "roundtrip" /\ json_value.t = "dict"

C30_ExampleValid == C30_Example => result.valid

\* what the code keeps: the example is valid unless a member is null, or is
\* a string with @ and . that is no address of EmailPattern
C30_Rejected(value) ==
    \/ value.t = "null"
    \/ /\ value.t = "str"
       /\ ContainsStr(value.str, "@") /\ ContainsStr(value.str, ".")
       /\ ~EmailMatch(value.str)

C30_ValidUnlessNullOrAddress ==
    C30_Example =>
        (result.valid <=>
            \A n \in DOMAIN json_value.fields :
                ContainsStr(n, ".") \/ ~C30_Rejected(json_value.fields[n]))

\* {"a": null}: the inferred type string rejects None
C30_NullRejected ==
    /\ C30_Example
    /\ json_value = DictValue(One("a", NullValue))
    /\ result.errors = <<Error("root.a", "type")>>

\* {"a": "a@b.c"}: the inferred pattern rejects the string
C30_AddressRejected ==
    /\ C30_Example
    /\ json_value = DictValue(One("a", StrValue("a@b.c")))
    /\ result.errors = <<Error("root.a", "pattern")>>

\* {"a": 3.5}: minimum 1.75 and maximum 7.0 hold of 3.5
C30_NumberAccepted ==
    /\ C30_Example
    /\ json_value = DictValue(One("a", FloatValue(3, TRUE)))
    /\ built_schema.value.props["a"].cons =
          Two("minimum", PyNum(TRUE, 7), "maximum", PyNum(TRUE, 28))
    /\ result.valid

====
